---- MODULE Spec2Model ----
(***************************************************************************)
(* Model of wikimaping.py: the label template parser and composer, the     *)
(* label delivery (inline text or temporary file), and the file-set walker *)
(* with its backup/target path allocation.                                 *)
(*                                                                         *)
(* Strings are sequences of one-character strings.  Indices and slices     *)
(* keep Python's 0-based convention: Slice(s, a, b) is s[a:b].             *)
(***************************************************************************)
EXTENDS Integers, Sequences, FiniteSets, TLC

\* ------------------------------------------------------------------------
\* Bounds of the model
\* ------------------------------------------------------------------------

\* longest template string drawn by InitParse
MaxTemplateLen == 5

\* ------------------------------------------------------------------------
\* String helpers (Python str operations)
\* ------------------------------------------------------------------------

Min(a, b) == IF a < b THEN a ELSE b

Max(a, b) == IF a > b THEN a ELSE b

\* s[a:b]
Slice(s, a, b) == SubSeq(s, Max(a, 0) + 1, Min(b, Len(s)))

\* s[a:]
SliceFrom(s, a) == SubSeq(s, Max(a, 0) + 1, Len(s))

\* s.startswith (t)
StartsWith(s, t) == Len(t) <= Len(s) /\ SubSeq(s, 1, Len(t)) = t

RECURSIVE Concat(_)
\* "".join (seq of strings)
Concat(ss) == IF ss = <<>> THEN <<>> ELSE Head(ss) \o Concat(Tail(ss))

\* all strings over alphabet A of length at most n
StringsUpTo(A, n) == UNION { [1..k -> A] : k \in 0..n }

\* ------------------------------------------------------------------------
\* Constants of the program
\* ------------------------------------------------------------------------

\* LABEL_TAGS: tag in template -> method of WmImageMetrics, in insertion order
LABEL_TAGS ==
    << [tag |-> <<"Y","Y","Y","Y">>, method |-> "year"],
       [tag |-> <<"M","M">>, method |-> "month"],
       [tag |-> <<"m","o","n","t","h">>, method |-> "month_name"],
       [tag |-> <<"M","O","N","T","H">>, method |-> "month_NAME"],
       [tag |-> <<"M","o","n","t","h">>, method |-> "month_Name"],
       [tag |-> <<"D","D">>, method |-> "day"],
       [tag |-> <<"h","h">>, method |-> "hour"],
       [tag |-> <<"m","m">>, method |-> "minute"],
       [tag |-> <<"s","s">>, method |-> "sec"],
       [tag |-> <<"f","i","l","e","_","n","a","m","e">>, method |-> "file_name"] >>

\* LABEL_TAGS_STATIC: tags whose value is the same for any image
LABEL_TAGS_STATIC == {}

\* MONTH_NAMES
MONTH_NAMES ==
    [m \in { <<"0","1">>, <<"0","2">>, <<"0","3">>, <<"0","4">>, <<"0","5">>,
             <<"0","6">>, <<"0","7">>, <<"0","8">>, <<"0","9">>, <<"1","0">>,
             <<"1","1">>, <<"1","2">> } |->
        CASE m = <<"0","1">> -> <<"j","a","n","u","a","r","y">>
          [] m = <<"0","2">> -> <<"f","e","b","r","u","a","r","y">>
          [] m = <<"0","3">> -> <<"m","a","r","c","h">>
          [] m = <<"0","4">> -> <<"a","p","r","i","l">>
          [] m = <<"0","5">> -> <<"m","a","y">>
          [] m = <<"0","6">> -> <<"j","u","n","e">>
          [] m = <<"0","7">> -> <<"j","u","l","y">>
          [] m = <<"0","8">> -> <<"a","u","g","u","s","t">>
          [] m = <<"0","9">> -> <<"s","e","p","t","e","m","b","e","r">>
          [] m = <<"1","0">> -> <<"o","c","t","o","b","e","r">>
          [] m = <<"1","1">> -> <<"n","o","v","e","m","b","e","r">>
          [] OTHER -> <<"d","e","c","e","m","b","e","r">>]

\* ------------------------------------------------------------------------
\* WmLabelSpan / WmLabelTemplate: the template parser
\* ------------------------------------------------------------------------

\* WmLabelSpanText (text)
WmLabelSpanText(text) ==
    [kind |-> "text", text |-> text, group_start |-> FALSE, group_end |-> FALSE]

\* WmLabelSpanTag (tag_name)
WmLabelSpanTag(tag_name) ==
    [kind |-> "tag", text |-> tag_name, group_start |-> FALSE, group_end |-> FALSE]

\* no pair of brackets stands for a literal bracket
NoEscape(s) == FALSE

\* s.startswith ("[[") or s.startswith ("]]")
StartsWithEscape(s) ==
    StartsWith(s, <<"[","[">>) \/ StartsWith(s, <<"]","]">>)

\* no tag name is found in a bracket region
FirstTagNone(string) == 0

\* the first tag of LABEL_TAGS (insertion order) that string starts with, 0 if none
FirstTag(string) ==
    LET hits == { k \in 1..Len(LABEL_TAGS) : StartsWith(string, LABEL_TAGS[k].tag) }
    IN  IF hits = {} THEN 0 ELSE CHOOSE k \in hits : \A j \in hits : k <= j

\* if text_span: spans.append (WmLabelSpanText (text_span))
AppendText(spans, text_span) ==
    IF text_span # <<>> THEN Append(spans, WmLabelSpanText(text_span)) ELSE spans

RECURSIVE BracketScan(_, _, _, _)
\* the while loop of __get_bracket_spans; it ends on the IndexError of string [0]
BracketScan(string, text_span, spans, static) ==
    IF string = <<>>
    THEN [spans |-> AppendText(spans, text_span), static |-> static]
    ELSE LET k == FirstTag(string) IN
         IF k # 0
         THEN BracketScan(SliceFrom(string, Len(LABEL_TAGS[k].tag)),
                          <<>>,
                          Append(AppendText(spans, text_span),
                                 WmLabelSpanTag(LABEL_TAGS[k].tag)),
                          static /\ (LABEL_TAGS[k].tag \in LABEL_TAGS_STATIC))
         ELSE BracketScan(IF StartsWithEscape(string)
                          THEN SliceFrom(string, 2) ELSE SliceFrom(string, 1),
                          Append(text_span, string[1]),
                          spans,
                          static)

\* the spans of a bracket region added without group marks
GetBracketSpansUnmarked(spans, static, string) ==
    BracketScan(string, <<>>, spans, static)

\* WmLabelTemplate.__get_bracket_spans: appends the spans of one bracket
\* region and marks the first and the last of them
GetBracketSpans(spans, static, string) ==
    LET old_len == Len(spans)
        r == BracketScan(string, <<>>, spans, static)
        n == Len(r.spans)
    IN  IF old_len < n
        THEN [spans |-> [k \in 1..n |->
                            [r.spans[k] EXCEPT
                                !.group_start = @ \/ (k = old_len + 1),
                                !.group_end = @ \/ (k = n)]],
              static |-> r.static]
        ELSE r

\* the locals of __get_spans before the loop
ParseStart ==
    [i |-> 0, brackets |-> 0, tags_start |-> -1, text_span |-> <<>>,
     spans |-> <<>>, static |-> TRUE, pc |-> "loop"]

\* one iteration of the for loop of __get_spans, at index st.i of template t
ParseIter(t, st) ==
    LET i == st.i
        c == t[i + 1]
    IN  IF st.brackets = 0 /\ StartsWithEscape(SliceFrom(t, i))
        THEN [st EXCEPT !.text_span = Append(@, c), !.i = i + 2]
        ELSE IF c = "["
        THEN [st EXCEPT !.brackets = @ + 1,
                        !.tags_start = IF st.brackets + 1 = 1 THEN i + 1 ELSE @,
                        !.i = i + 1]
        ELSE IF c = "]" /\ st.brackets > 0
        THEN IF st.brackets - 1 = 0
             THEN LET r == GetBracketSpans(AppendText(st.spans, st.text_span),
                                           st.static,
                                           Slice(t, st.tags_start, i))
                  IN  [st EXCEPT !.brackets = 0, !.text_span = <<>>,
                                 !.spans = r.spans, !.static = r.static,
                                 !.tags_start = -1, !.i = i + 1]
             ELSE [st EXCEPT !.brackets = @ - 1, !.i = i + 1]
        ELSE IF st.brackets = 0
        THEN [st EXCEPT !.text_span = Append(@, c), !.i = i + 1]
        ELSE [st EXCEPT !.i = i + 1]

\* an end of __get_spans that leaves an open bracket region out
ParseEndClosedOnly(t, st) ==
    [st EXCEPT !.spans = AppendText(st.spans, st.text_span), !.pc = "done"]

\* the end of __get_spans, after the loop
ParseEnd(t, st) ==
    LET text_span == IF st.brackets > 0
                     THEN st.text_span \o SliceFrom(t, st.tags_start - 1)
                     ELSE st.text_span
    IN  [st EXCEPT !.text_span = text_span,
                   !.spans = AppendText(st.spans, text_span),
                   !.pc = "done"]

\* one step of __get_spans
ParseStep(t, st) ==
    IF st.i < Len(t) THEN ParseIter(t, st) ELSE ParseEnd(t, st)

RECURSIVE ParseRun(_, _)
ParseRun(t, st) == IF st.pc = "done" THEN st ELSE ParseRun(t, ParseStep(t, st))

\* WmLabelTemplate.__get_spans on a fresh template: [spans, static]
GetSpans(t) == ParseRun(t, ParseStart)

\* ------------------------------------------------------------------------
\* WmImageMetrics: the values the label tags resolve to
\* ------------------------------------------------------------------------

LowerLetters ==
    << "a","b","c","d","e","f","g","h","i","j","k","l","m",
       "n","o","p","q","r","s","t","u","v","w","x","y","z" >>

UpperLetters ==
    << "A","B","C","D","E","F","G","H","I","J","K","L","M",
       "N","O","P","Q","R","S","T","U","V","W","X","Y","Z" >>

\* c.upper () of one character
UpperChar(c) ==
    IF \E k \in 1..26 : LowerLetters[k] = c
    THEN UpperLetters[CHOOSE k \in 1..26 : LowerLetters[k] = c]
    ELSE c

\* c.lower () of one character
LowerChar(c) ==
    IF \E k \in 1..26 : UpperLetters[k] = c
    THEN LowerLetters[CHOOSE k \in 1..26 : UpperLetters[k] = c]
    ELSE c

\* s.upper ()
Upper(s) == [k \in 1..Len(s) |-> UpperChar(s[k])]

\* s.lower ()
Lower(s) == [k \in 1..Len(s) |-> LowerChar(s[k])]

\* s.capitalize ()
Capitalize(s) == [k \in 1..Len(s) |-> IF k = 1 THEN UpperChar(s[k]) ELSE LowerChar(s[k])]

\* an answer of the metadata query for one EXIF date tag: an empty line, a
\* line the date regular expression does not match, or a date and time
ExifEmpty == [kind |-> "empty", date |-> <<>>]

ExifGarbage == [kind |-> "garbage", date |-> <<>>]

\* "YYYY:MM:DD hh:mm:ss" as its six groups
ExifDate(y, mo, d, h, mi, sec) == [kind |-> "date", date |-> <<y, mo, d, h, mi, sec>>]

\* WmImageMetrics.__get_exif_date: the first non-empty answer of the three
\* tags, matched against the date regular expression; <<>> on error
GetExifDate(image) ==
    LET hits == { k \in 1..Len(image.exif) : image.exif[k].kind # "empty" }
    IN  IF hits = {} THEN <<>>
        ELSE LET first == image.exif[CHOOSE k \in hits : \A j \in hits : k <= j]
             IN  IF first.kind = "date" THEN first.date ELSE <<>>

\* the date accessors: self.__<field> if self.__get_exif_date () else ""
DateField(image, n) ==
    LET date == GetExifDate(image) IN IF date = <<>> THEN <<>> ELSE date[n]

\* WmImageMetrics.month_name
MonthName(image) ==
    LET month == DateField(image, 2)
    IN  IF month \in DOMAIN MONTH_NAMES THEN MONTH_NAMES[month] ELSE <<>>

\* LABEL_TAGS [tag] (image): the accessor named by the tag table
TagValue(tag_name, image) ==
    LET method == (CHOOSE k \in 1..Len(LABEL_TAGS) : LABEL_TAGS[k].tag = tag_name)
        m == LABEL_TAGS[method].method
    IN  CASE m = "year" -> DateField(image, 1)
          [] m = "month" -> DateField(image, 2)
          [] m = "month_name" -> MonthName(image)
          [] m = "month_NAME" -> Upper(MonthName(image))
          [] m = "month_Name" -> Capitalize(MonthName(image))
          [] m = "day" -> DateField(image, 3)
          [] m = "hour" -> DateField(image, 4)
          [] m = "minute" -> DateField(image, 5)
          [] m = "sec" -> DateField(image, 6)
          [] OTHER -> image.file_name

\* WmLabelSpanText.value / WmLabelSpanTag.value
SpanValue(span, image) ==
    IF span.kind = "text" THEN span.text ELSE TagValue(span.text, image)

\* ------------------------------------------------------------------------
\* WmLabel.__compose
\* ------------------------------------------------------------------------

\* a group that suppresses nothing: the undefined value is skipped and the
\* text gathered so far is kept (the "Wrong" outcome of the source's comment)
GroupTextKept(group_text) == group_text

\* group_text = "" when a value of the group is undefined
GroupTextOnEmpty(group_text) == <<>>

RECURSIVE ComposeLoop(_, _, _, _)
\* the for loop of __compose from span k on; c holds the locals
ComposeLoop(spans, image, k, c) ==
    IF k > Len(spans) THEN c.label_text
    ELSE LET span == spans[k]
             group == c.group \/ span.group_start
             group_empty == IF span.group_start THEN FALSE ELSE c.group_empty
             value == SpanValue(span, image)
             c1 == IF group
                   THEN IF ~group_empty
                        THEN IF value = <<>>
                             THEN [c EXCEPT !.group = TRUE, !.group_empty = TRUE,
                                            !.group_text = GroupTextOnEmpty(@)]
                             ELSE [c EXCEPT !.group = TRUE, !.group_empty = FALSE,
                                            !.group_text = @ \o value]
                        ELSE [c EXCEPT !.group = TRUE, !.group_empty = TRUE]
                   ELSE [c EXCEPT !.label_text = @ \o value]
             c2 == IF span.group_end
                   THEN [c1 EXCEPT !.label_text = @ \o c1.group_text,
                                   !.group = FALSE, !.group_text = <<>>]
                   ELSE c1
         IN  ComposeLoop(spans, image, k + 1, c2)

\* WmLabel.__compose for a parsed, non-empty template
Compose(spans, image) ==
    ComposeLoop(spans, image, 1,
                [label_text |-> <<>>, group |-> FALSE, group_empty |-> FALSE,
                 group_text |-> <<>>])

\* ------------------------------------------------------------------------
\* textwrap.wrap, as WmLabel.__split_lines calls it (default options)
\* ------------------------------------------------------------------------

\* the characters str.isspace () and textwrap treat as whitespace
Whitespace == {" ", "\n", "\t", "\r", "\f"}

\* TextWrapper._munge_whitespace (replace_whitespace): every whitespace
\* character becomes one space (no tab is drawn, so expandtabs changes nothing)
MungeWhitespace(text) ==
    [k \in 1..Len(text) |-> IF text[k] \in Whitespace THEN " " ELSE text[k]]

\* chunk.strip () == ''
IsBlank(chunk) == \A k \in 1..Len(chunk) : chunk[k] = " "

RECURSIVE SplitChunks(_, _, _)
\* TextWrapper._split: maximal runs of spaces and of other characters
\* (no hyphen is drawn); cur is the run being read
SplitChunks(text, cur, chunks) ==
    IF text = <<>>
    THEN IF cur = <<>> THEN chunks ELSE Append(chunks, cur)
    ELSE IF cur = <<>> \/ ((Head(text) = " ") <=> (cur[1] = " "))
         THEN SplitChunks(Tail(text), Append(cur, Head(text)), chunks)
         ELSE SplitChunks(Tail(text), <<Head(text)>>, Append(chunks, cur))

RECURSIVE FillLine(_, _, _, _)
\* the inner while loop of _wrap_chunks: chunks that fit on the current line
FillLine(chunks, cur_line, cur_len, width) ==
    IF chunks # <<>> /\ cur_len + Len(Head(chunks)) <= width
    THEN FillLine(Tail(chunks), Append(cur_line, Head(chunks)),
                  cur_len + Len(Head(chunks)), width)
    ELSE [chunks |-> chunks, cur_line |-> cur_line, cur_len |-> cur_len]

\* TextWrapper._handle_long_word (break_long_words): the chunk that is longer
\* than a whole line is cut to fill the space left on the current line
HandleLongWord(f, width) ==
    IF f.chunks # <<>> /\ Len(Head(f.chunks)) > width
    THEN LET space_left == IF width < 1 THEN 1 ELSE width - f.cur_len
             chunk == Head(f.chunks)
         IN  [chunks |-> <<Slice(chunk, space_left, Len(chunk))>> \o Tail(f.chunks),
              cur_line |-> Append(f.cur_line, Slice(chunk, 0, space_left))]
    ELSE [chunks |-> f.chunks, cur_line |-> f.cur_line]

\* drop_whitespace: a blank chunk at the end of the line is dropped
DropTrailingBlank(cur_line) ==
    IF cur_line # <<>> /\ IsBlank(cur_line[Len(cur_line)])
    THEN SubSeq(cur_line, 1, Len(cur_line) - 1)
    ELSE cur_line

RECURSIVE WrapChunks(_, _, _)
\* TextWrapper._wrap_chunks for width > 0
WrapChunks(chunks, width, lines) ==
    IF chunks = <<>> THEN lines
    ELSE LET start == IF IsBlank(Head(chunks)) /\ lines # <<>>
                      THEN Tail(chunks) ELSE chunks
             h == HandleLongWord(FillLine(start, <<>>, 0, width), width)
             cur_line == DropTrailingBlank(h.cur_line)
         IN  WrapChunks(h.chunks, width,
                        IF cur_line # <<>> THEN Append(lines, Concat(cur_line))
                        ELSE lines)

\* textwrap.wrap (text, width = width) for width > 0
Wrap(text, width) ==
    WrapChunks(SplitChunks(MungeWhitespace(text), <<>>, <<>>), width, <<>>)

\* WmLabel.__split_lines: a line break ends every line but the last
SplitLines(label_text, line_width) ==
    LET res == Wrap(label_text, line_width)
    IN  [k \in 1..Len(res) |-> IF k < Len(res) THEN Append(res[k], "\n") ELSE res[k]]

\* ------------------------------------------------------------------------
\* WmImageMetrics geometry and the label fitter
\* ------------------------------------------------------------------------

PHOTO_MAX_SIDE == 1920

LABEL_FONT_SIZE == 40

LABEL_FONT_SIZE_PHOTO_SIDE == 1920

LABEL_LINE_WIDTH == 60

LABEL_MAX_SIZE == 4096

\* the font size below which __calc_font_size does not go
MinFontSize == 16

\* the font size from which on the stroke width is 2
ThickStrokeFontSize == 26

\* ORIENTATIONS_MAP, on the answer of the EXIF orientation query
ORIENTATIONS_MAP ==
    [d \in {"1", "2", "3", "4", "5", "6", "7", "8"} |->
        CASE d = "1" -> "RotateNoneFlipNone"
          [] d = "2" -> "RotateNoneFlipHorisontal"
          [] d = "3" -> "Rotate180FlipNone"
          [] d = "4" -> "Rotate180FlipHorisontal"
          [] d = "5" -> "Rotate270FlipVertical"
          [] d = "6" -> "Rotate270FlipNone"
          [] d = "7" -> "Rotate90FlipVertical"
          [] OTHER -> "Rotate90FlipNone"]

ORIENTATIONS_PORTRAIT ==
    {"RotateNoneFlipNone", "RotateNoneFlipHorisontal",
     "Rotate180FlipNone", "Rotate180FlipHorisontal"}

ORIENTATION_NONE == "RotateNoneFlipNone"

\* WmImageMetrics.orientation; image.orientation is the answer of the query
Orientation(img) ==
    IF img.orientation \in DOMAIN ORIENTATIONS_MAP
    THEN ORIENTATIONS_MAP[img.orientation] ELSE ORIENTATION_NONE

\* WmImageMetrics.__get_width_or_height; im_w and im_h are the answers for
\* '%w' and '%h', -1 standing for an answer that is no number
WidthOrHeight(img, get_width) ==
    LET answer == IF Orientation(img) \in ORIENTATIONS_PORTRAIT
                  THEN (IF get_width THEN img.im_w ELSE img.im_h)
                  ELSE (IF get_width THEN img.im_h ELSE img.im_w)
    IN  IF answer < 0 THEN 0 ELSE answer

\* WmImageMetrics.width
Width(img) == WidthOrHeight(img, TRUE)

\* WmImageMetrics.height
Height(img) == WidthOrHeight(img, FALSE)

\* min (max (width, height), PHOTO_MAX_SIDE)
MaxSide(img) == Min(Max(Width(img), Height(img)), PHOTO_MAX_SIDE)

\* the quotient a / b of naturals rounded to the nearest integer
RoundNearest(a, b) == (2 * a + b) \div (2 * b)

\* the exact font size with the quotient rounded to the nearest integer
ExactFontSizeRounded(img) ==
    IF MaxSide(img) # LABEL_FONT_SIZE_PHOTO_SIDE
    THEN RoundNearest(LABEL_FONT_SIZE * MaxSide(img), LABEL_FONT_SIZE_PHOTO_SIDE)
    ELSE LABEL_FONT_SIZE

\* WmLabel.exact_font_size; int () of the non-negative quotient is \div
ExactFontSize(img) ==
    IF MaxSide(img) # LABEL_FONT_SIZE_PHOTO_SIDE
    THEN (LABEL_FONT_SIZE * MaxSide(img)) \div LABEL_FONT_SIZE_PHOTO_SIDE
    ELSE LABEL_FONT_SIZE

\* the exact font size taken for the font size, with no least size
FontSizeExact(img) == ExactFontSize(img)

\* WmLabel.font_size
FontSize(img) ==
    IF MaxSide(img) # LABEL_FONT_SIZE_PHOTO_SIDE
    THEN Max(ExactFontSize(img), MinFontSize)
    ELSE LABEL_FONT_SIZE

\* WmLabel.stroke_width
StrokeWidth(img) ==
    IF MaxSide(img) # LABEL_FONT_SIZE_PHOTO_SIDE /\ FontSize(img) < ThickStrokeFontSize
    THEN 1 ELSE 2

\* WmLabel.line_width
LineWidth(img) ==
    LET fit == IF Width(img) >= Height(img)
               THEN LABEL_LINE_WIDTH
               ELSE (LABEL_LINE_WIDTH * Width(img)) \div Height(img)
    IN  IF ExactFontSize(img) # FontSize(img)
        THEN (fit * ExactFontSize(img)) \div FontSize(img)
        ELSE fit

\* WmLabel.set_image: __font_size, __exact_font_size and __stroke_width
\* are None, written 0
FontNew == [font_size |-> 0, exact_font_size |-> 0, stroke_width |-> 0]

\* WmLabel.__calc_font_size on the fields f for image img: fields that are
\* set are kept
CalcFontSize(f, img) ==
    IF f.font_size # 0
    THEN f
    ELSE [font_size |-> FontSize(img),
          exact_font_size |-> ExactFontSize(img),
          stroke_width |-> StrokeWidth(img)]

\* ------------------------------------------------------------------------
\* WmTempFile and WmLabelText: delivery of the label text
\* ------------------------------------------------------------------------

\* the number of names WmTempFile.__init__ tries
TEMP_FILE_NAMES == 10

\* os.path.join (root, prefix + "_94350621_TMP" + str (i) + "." + ext)
TempPath(root, i) == [root |-> root, i |-> i]

\* the path "" of a WmTempFile that found no free name
NoPath == [root |-> <<>>, i |-> -1]

\* WmTempFile.__init__: the first of the names that does not exist; the
\* file itself is not created here.  disk maps the existing files to lines.
WmTempFile(root, disk) ==
    LET free == { i \in 0..(TEMP_FILE_NAMES - 1) : TempPath(root, i) \notin DOMAIN disk }
    IN  IF free = {} THEN NoPath
        ELSE TempPath(root, CHOOSE i \in free : \A j \in free : i <= j)

\* a read that gives the lines on disk whether or not the file can be read
TempReadAnyway(path, disk, read_ok) ==
    IF path \in DOMAIN disk THEN disk[path] ELSE <<>>

\* WmTempFile.read: [] when the file cannot be read
TempRead(path, disk, read_ok) ==
    IF path = NoPath \/ path \notin DOMAIN disk \/ ~read_ok THEN <<>> ELSE disk[path]

\* the characters 0x20..0x7E in order (0x60 under a name: the lexer of
\* the language does not take it in a string)
Printable ==
    << " ", "!", "\"", "#", "$", "%", "&", "'", "(", ")", "*", "+", ",", "-", ".", "/",
       "0", "1", "2", "3", "4", "5", "6", "7", "8", "9", ":", ";", "<", "=", ">", "?",
       "@", "A", "B", "C", "D", "E", "F", "G", "H", "I", "J", "K", "L", "M", "N", "O",
       "P", "Q", "R", "S", "T", "U", "V", "W", "X", "Y", "Z", "[", "\\", "]", "^", "_",
       "<grave accent>", "a", "b", "c", "d", "e", "f", "g", "h", "i", "j", "k", "l", "m", "n", "o",
       "p", "q", "r", "s", "t", "u", "v", "w", "x", "y", "z", "{", "|", "}", "~" >>

\* ord (c) of the characters the label texts are made of
OrdTable ==
    [c \in { Printable[k] : k \in 1..Len(Printable) } \cup {"\t", "\n", "\f", "\r", "é"} |->
        IF \E k \in 1..Len(Printable) : Printable[k] = c
        THEN 31 + (CHOOSE k \in 1..Len(Printable) : Printable[k] = c)
        ELSE CASE c = "\t" -> 9
               [] c = "\n" -> 10
               [] c = "\f" -> 12
               [] c = "\r" -> 13
               [] OTHER -> 233]

Ord(c) == OrdTable[c]

\* all ((ord (c) < 128 and ord (c) >= ord (' ') and ord (c) <= ord ('~')) ...)
AllPrintableAscii(line) ==
    \A k \in 1..Len(line) :
        Ord(line[k]) < 128 /\ Ord(line[k]) >= Ord(" ") /\ Ord(line[k]) <= Ord("~")

\* a WmLabel without a WmLabelText (self.__text = None)
NoLabelText ==
    [made |-> FALSE, text |-> <<>>, lines |-> <<>>, lines_none |-> TRUE,
     has_file |-> FALSE, file_path |-> NoPath, use_file |-> FALSE]

\* the file operations of one WmLabel.text call: none made; path is the
\* file that was written or removed
NoIo == [read |-> "none", wrote |-> "none", removed |-> "none", path |-> NoPath]

\* no label file written yet
NoTempFiles == [written |-> {}, stuck |-> {}]

\* the history after the file operations io left the files disk
TempHistory(h, io, disk) ==
    [written |-> h.written \cup (IF io.wrote # "none" /\ io.path \in DOMAIN disk
                                 THEN {io.path} ELSE {}),
     stuck |-> h.stuck \cup (IF io.removed = "failed" THEN {io.path} ELSE {})]

\* a __del__ that leaves the file on disk
TempDelSkipped(path, disk, rm_ok) == disk

\* WmTempFile.__del__ (remove_file (self.path)): the files left on disk
TempDel(path, disk, rm_ok) ==
    IF path # NoPath /\ path \in DOMAIN disk /\ rm_ok
    THEN [q \in DOMAIN disk \ {path} |-> disk[q]]
    ELSE disk

\* the outcome of the remove_file of WmTempFile.__del__
TempDelOutcome(path, disk, rm_ok) ==
    IF path = NoPath \/ path \notin DOMAIN disk THEN "none"
    ELSE IF rm_ok THEN "ok" ELSE "failed"

\* a write that failed: open () may have created or emptied the file
\* before the error (env.created), or have left the disk as it was
FailedWrite(path, disk, created) ==
    IF path # NoPath /\ created
    THEN [q \in DOMAIN disk \cup {path} |-> IF q = path THEN <<>> ELSE disk[q]]
    ELSE disk

\* WmLabelText.__str__: the -annotate argument
LabelTextStr(w) ==
    IF w.use_file /\ w.has_file
    THEN [kind |-> "file", text |-> <<>>, path |-> w.file_path]
    ELSE IF w.text # <<>>
    THEN [kind |-> "inline", text |-> w.text, path |-> NoPath]
    ELSE [kind |-> "none", text |-> <<>>, path |-> NoPath]

\* WmLabelText.init (root, text, lines) on object w; env holds the outcomes
\* of the file operations (read_ok, write_ok, created, rm_ok)
LabelTextInit(w, disk, root, text, lines, env) ==
    LET w1 == [w EXCEPT !.made = TRUE, !.text = text]
        same == ~w.lines_none /\ w.lines = lines
        reread == same /\ w.use_file /\ w.has_file
        w2 == [w1 EXCEPT !.lines = lines, !.lines_none = FALSE]
        path == IF w.has_file THEN w.file_path ELSE WmTempFile(root, disk)
        io1 == [NoIo EXCEPT !.read = IF reread
                                      THEN (IF env.read_ok THEN "ok" ELSE "failed")
                                      ELSE "none"]
    IN  IF same /\ ~w.use_file
        THEN [w |-> w1, disk |-> disk, io |-> NoIo]
        ELSE IF reread /\ TempRead(w.file_path, disk, env.read_ok) = w.lines
        THEN [w |-> w1, disk |-> disk, io |-> io1]
        ELSE IF lines = <<>>
        THEN [w |-> [w2 EXCEPT !.use_file = FALSE], disk |-> disk, io |-> io1]
        ELSE IF Len(lines) = 1 /\ AllPrintableAscii(lines[1])
        THEN [w |-> [w2 EXCEPT !.use_file = FALSE], disk |-> disk, io |-> io1]
        ELSE IF path # NoPath /\ env.write_ok
        THEN [w |-> [w2 EXCEPT !.use_file = TRUE, !.has_file = TRUE,
                               !.file_path = path],
              disk |-> [q \in DOMAIN disk \cup {path} |->
                           IF q = path THEN lines ELSE disk[q]],
              io |-> [io1 EXCEPT !.wrote = "ok", !.path = path]]
        ELSE \* the write failed: self.__lines = None, del (self.__file)
             [w |-> [w2 EXCEPT !.use_file = TRUE, !.lines_none = TRUE,
                               !.lines = <<>>,
                               !.has_file = FALSE, !.file_path = NoPath],
              disk |-> TempDel(path, FailedWrite(path, disk, env.created), env.rm_ok),
              io |-> [io1 EXCEPT !.wrote = "failed",
                                 !.removed = TempDelOutcome(path,
                                                 FailedWrite(path, disk, env.created),
                                                 env.rm_ok),
                                 !.path = path]]

\* the -annotate argument when there is no label
NoAnnotation == [kind |-> "none", text |-> <<>>, path |-> NoPath]

\* WmLabelTemplate before __get_spans has run: static is False
TemplateNew == [ParseStart EXCEPT !.static = FALSE]

\* number of file_name tags in the long template
ManyNames == 33

\* length of the longest file name
LongestName == 255

NameTag == <<"f","i","l","e","_","n","a","m","e">>

\* the template [file_namefile_name...] with n tags
NameGroup(n) == <<"[">> \o [k \in 1..(9 * n) |-> NameTag[((k - 1) % 9) + 1]] \o <<"]">>

\* __get_spans on NameGroup (n) in closed form: n tag spans that form one
\* group, the template not static (equal to GetSpans for n = 1..5)
NameGroupSpans(n) ==
    [ParseStart EXCEPT
        !.i = 9 * n + 2,
        !.spans = [k \in 1..n |-> [WmLabelSpanTag(NameTag) EXCEPT
                                      !.group_start = (k = 1), !.group_end = (k = n)]],
        !.static = FALSE,
        !.pc = "done"]

\* a __get_spans that parses on every use and keeps the spans it holds
TemplateSpansAppended(t, p) == ParseRun(t, [ParseStart EXCEPT !.spans = p.spans])

\* WmLabelTemplate.__iter__: __get_spans parses on the first use only
TemplateSpans(t, p) ==
    IF p.spans # <<>> THEN p
    ELSE IF t = NameGroup(ManyNames) THEN NameGroupSpans(ManyNames)
    ELSE GetSpans(t)

\* the label is never too long for main
TemplateNeverTooLong(t) == FALSE

\* main: len (args.label) > LABEL_MAX_SIZE
TemplateTooLong(t) == Len(t) > LABEL_MAX_SIZE

\* the text of the previous image taken whenever there is one, whatever
\* the template holds
ReusesTextAlways(p, w) == w.made

\* if self.__text and self.__template.static
ReusesText(p, w) == w.made /\ p.static

\* WmLabel.text (dir): the new template state, label text, WmLabelText
\* object, files and the returned -annotate argument.  p1 is the template
\* after __compose, text the text handed to __split_lines, lw the line
\* width and lines the result of __split_lines.
\* raised: textwrap.wrap raised ValueError (width <= 0).
LabelText(t, p, lt, w, disk, dir, env, p1, text, lw, lines) ==
    LET same == [parse |-> p, label_text |-> lt, w |-> w, disk |-> disk, io |-> NoIo,
                 raised |-> FALSE, annotate |-> NoAnnotation]
        composed == IF ReusesText(p, w) THEN same
                    ELSE [same EXCEPT !.parse = p1, !.label_text = text]
    IN  IF t = <<>> THEN same
        ELSE IF ~ReusesText(p, w) /\ text = <<>> THEN composed
        ELSE IF ~ReusesText(p, w) /\ Len(text) > LABEL_MAX_SIZE * 2 THEN composed
        ELSE IF lw <= 0 THEN [composed EXCEPT !.raised = TRUE]
        ELSE LET r == LabelTextInit(w, disk, dir, text, lines, env)
             IN  [composed EXCEPT !.w = r.w, !.disk = r.disk, !.io = r.io,
                                  !.annotate = LabelTextStr(r.w)]

\* ------------------------------------------------------------------------
\* os.path on relative POSIX paths, and the file system
\* ------------------------------------------------------------------------

Sep == "/"

\* s.rfind (c) + 1: the index of the last c in s counted from 1, 0 if none
LastIndex(s, c) ==
    LET hits == { k \in 1..Len(s) : s[k] = c }
    IN  IF hits = {} THEN 0 ELSE CHOOSE k \in hits : \A j \in hits : j <= k

\* the length of s.rstrip ('/')
RStripLen(s) ==
    LET kept == { k \in 1..Len(s) : s[k] # Sep }
    IN  IF kept = {} THEN 0 ELSE CHOOSE k \in kept : \A j \in kept : j <= k

\* os.path.split (p) [0]
SplitHead(p) ==
    IF RStripLen(SubSeq(p, 1, LastIndex(p, Sep))) = 0
    THEN SubSeq(p, 1, LastIndex(p, Sep))
    ELSE SubSeq(p, 1, RStripLen(SubSeq(p, 1, LastIndex(p, Sep))))

\* os.path.split (p) [1]
SplitTail(p) == SubSeq(p, LastIndex(p, Sep) + 1, Len(p))

\* os.path.join (a, b)
Join(a, b) ==
    IF b # <<>> /\ b[1] = Sep THEN b
    ELSE IF a = <<>> \/ a[Len(a)] = Sep THEN a \o b
    ELSE a \o <<Sep>> \o b

\* genericpath._splitext: the index of the dot the extension starts with, 0
\* if there is no extension (leading dots of the name start none)
ExtDot(p) ==
    IF /\ LastIndex(p, ".") > LastIndex(p, Sep)
       /\ \E k \in (LastIndex(p, Sep) + 1)..(LastIndex(p, ".") - 1) : p[k] # "."
    THEN LastIndex(p, ".") ELSE 0

\* os.path.splitext (p) [0]
SplitExtRoot(p) == IF ExtDot(p) = 0 THEN p ELSE SubSeq(p, 1, ExtDot(p) - 1)

\* os.path.splitext (p) [1]
SplitExtExt(p) == IF ExtDot(p) = 0 THEN <<>> ELSE SubSeq(p, ExtDot(p), Len(p))

RECURSIVE SplitSep(_, _, _)
\* path.split ('/'); cur is the component being read
SplitSep(s, cur, comps) ==
    IF s = <<>> THEN Append(comps, cur)
    ELSE IF Head(s) = Sep THEN SplitSep(Tail(s), <<>>, Append(comps, cur))
    ELSE SplitSep(Tail(s), Append(cur, Head(s)), comps)

RECURSIVE JoinSep(_)
\* '/'.join (comps)
JoinSep(comps) ==
    IF comps = <<>> THEN <<>>
    ELSE IF Len(comps) = 1 THEN comps[1]
    ELSE comps[1] \o <<Sep>> \o JoinSep(Tail(comps))

\* comp in ('', '.')
SkippedComp(comp) == comp = <<>> \/ comp = <<".">>

KeptComp(comp) == ~SkippedComp(comp)

\* a path normpath leaves as it is: "." or components other than '' and '.'
IsNormal(path) ==
    \/ path = <<".">>
    \/ /\ path # <<>>
       /\ \A k \in 1..Len(path) :
             path[k] = Sep => (k # 1 /\ k # Len(path) /\ path[k + 1] # Sep)
       /\ \A k \in 1..Len(path) :
             path[k] = "." => ~( /\ (k = 1 \/ path[k - 1] = Sep)
                                 /\ (k = Len(path) \/ path[k + 1] = Sep) )

\* posixpath.normpath for relative paths without '..' components
NormPath(path) ==
    IF IsNormal(path) THEN path
    ELSE IF JoinSep(SelectSeq(SplitSep(path, <<>>, <<>>), KeptComp)) = <<>> THEN <<".">>
    ELSE JoinSep(SelectSeq(SplitSep(path, <<>>, <<>>), KeptComp))

\* the digits of str (n)
Digits == <<"0", "1", "2", "3", "4", "5", "6", "7", "8", "9">>

RECURSIVE Decimal(_)
\* str (n) for n >= 0
Decimal(n) ==
    IF n < 10 THEN <<Digits[n + 1]>>
    ELSE Append(Decimal(n \div 10), Digits[(n % 10) + 1])

\* "_{:0<width>d}".format (i)
NumberSuffix(i, width) ==
    <<"_">> \o [k \in 1..Max(width - Len(Decimal(i)), 0) |-> "0"] \o Decimal(i)

\* a < b for str: the order list.sort () uses
StrLess(a, b) ==
    LET diff == { k \in 1..Min(Len(a), Len(b)) : a[k] # b[k] }
    IN  IF diff = {} THEN Len(a) < Len(b)
        ELSE Ord(a[CHOOSE k \in diff : \A j \in diff : k <= j])
                 < Ord(b[CHOOSE k \in diff : \A j \in diff : k <= j])

\* the current directory, which every relative path starts from
Cwd == <<".">>

\* The file system fs is [dirs, files]: the set of the directories and the
\* map of the files to their contents, both keyed by the normalized path.
\* A content is [orig, gen]: the path the photo was first found at and the
\* number of conversions it went through.

\* path_exists (p)
PathExists(fs, p) ==
    p # <<>> /\ (NormPath(p) \in fs.dirs \/ NormPath(p) \in DOMAIN fs.files)

\* path_is_dir (p)
PathIsDir(fs, p) == p # <<>> /\ NormPath(p) \in fs.dirs

\* os.path.isfile (p)
PathIsFile(fs, p) == p # <<>> /\ NormPath(p) \in DOMAIN fs.files

\* the directory that holds the normalized path k
ParentKey(k) == IF SplitHead(k) = <<>> THEN Cwd ELSE SplitHead(k)

RECURSIVE UpKeys(_)
\* the normalized path k and the directories above it, below Cwd
UpKeys(k) == IF k = Cwd \/ k = <<>> THEN {} ELSE {k} \cup UpKeys(ParentKey(k))

\* os.makedirs (path): ok is FALSE on OSError
MakeDirs(fs, path, mkdir_ok) ==
    IF /\ mkdir_ok
       /\ path # <<>>
       /\ ~PathExists(fs, path)
       /\ UpKeys(NormPath(path)) \cap DOMAIN fs.files = {}
    THEN [fs |-> [fs EXCEPT !.dirs = @ \cup UpKeys(NormPath(path))], ok |-> TRUE]
    ELSE [fs |-> fs, ok |-> FALSE]

\* the files map after the file at key src took the place dst
FilesMoved(files, src, dst) ==
    [k \in (DOMAIN files \ {src}) \cup {dst} |-> IF k = dst THEN files[src] ELSE files[k]]

\* move_file (src, dst) for a file src: shutil.move replaces a file at dst;
\* no directory carries the name of a file the program moves
MoveFile(fs, src, dst, move_ok) ==
    IF /\ move_ok
       /\ PathIsFile(fs, src)
       /\ dst # <<>>
       /\ ~PathIsDir(fs, dst)
       /\ ParentKey(NormPath(dst)) \in fs.dirs
    THEN [fs |-> [fs EXCEPT !.files = FilesMoved(@, NormPath(src), NormPath(dst))],
          ok |-> TRUE]
    ELSE [fs |-> fs, ok |-> FALSE]

\* the files map after the conversion of the file at key src was written to dst
FilesConverted(files, src, dst) ==
    [k \in DOMAIN files \cup {dst} |->
        IF k = dst THEN [orig |-> files[src].orig, gen |-> files[src].gen + 1]
        ELSE files[k]]

\* cmd_exitcode (IM_CONVERT ... src ... target) == 0: the external conversion
\* reads src and writes target; it fails when it cannot do either
RunConvert(fs, src, target, exit_ok) ==
    IF /\ exit_ok
       /\ PathIsFile(fs, src)
       /\ target # <<>>
       /\ ~PathIsDir(fs, target)
       /\ ParentKey(NormPath(target)) \in fs.dirs
    THEN [fs |-> [fs EXCEPT !.files = FilesConverted(@, NormPath(src), NormPath(target))],
          ok |-> TRUE]
    ELSE [fs |-> fs, ok |-> FALSE]

\* the names of the files os.walk lists for the directory dir
WalkFiles(fs, dir) ==
    { SplitTail(k) : k \in { q \in DOMAIN fs.files : ParentKey(q) = NormPath(dir) } }

\* the names of the directories os.walk lists for the directory dir
WalkSubdirs(fs, dir) ==
    { SplitTail(k) : k \in { q \in fs.dirs \ {Cwd} : ParentKey(q) = NormPath(dir) } }

\* some file lies in the directory dir or below it
HasFilesBelow(fs, dir) ==
    \E k \in DOMAIN fs.files : NormPath(dir) = Cwd \/ NormPath(dir) \in UpKeys(ParentKey(k))

\* ------------------------------------------------------------------------
\* WmFiles: backup and target paths, the conversion of one file
\* ------------------------------------------------------------------------

BACKUP_DIR_NAME == <<"b", "a", "c", "k", "u", "p">>

\* the "_backup" that get_backup_path adds to a name
BACKUP_SUFFIX == <<"_", "b", "a", "c", "k", "u", "p">>

FILE_EXTENSIONS == { <<"j", "p", "g">>, <<"j", "p", "e", "g">> }

\* the number of names __make_backup_root tries
BACKUP_ROOT_NAMES == 100

\* The last number get_backup_path tries; the source counts to 998, the
\* model to a number small enough to have every candidate on disk.
LastBackupNumber == 2

\* WmFiles.__good_type without the count: ext.lower () in FILE_EXTENSIONS
GoodType(file) == Lower(SliceFrom(SplitExtExt(file), 1)) \in FILE_EXTENSIONS

\* sub_path with the leading separators dropped
LStripSep(s) ==
    LET kept == { k \in 1..Len(s) : s[k] # Sep }
    IN  IF kept = {} THEN <<>>
        ELSE SubSeq(s, CHOOSE k \in kept : \A j \in kept : k <= j, Len(s))

\* get_target_path (source_root, target_root, path)
GetTargetPath(source_root, target_root, path) ==
    IF ~StartsWith(path, source_root) THEN <<>>
    ELSE Join(target_root, LStripSep(SliceFrom(path, Len(source_root))))

\* get_backup_path: the first name tried
BackupPlain(path, backup_dir) ==
    IF backup_dir # <<>> THEN Join(backup_dir, SplitTail(path))
    ELSE SplitExtRoot(path) \o BACKUP_SUFFIX \o SplitExtExt(path)

\* get_backup_path: the name with number i; rname and ext come from the
\* splitext of path when there is no backup_dir, and of the first name otherwise
BackupNumbered(path, backup_dir, i) ==
    IF backup_dir # <<>>
    THEN SplitExtRoot(BackupPlain(path, backup_dir)) \o NumberSuffix(i, 3)
             \o SplitExtExt(BackupPlain(path, backup_dir))
    ELSE SplitExtRoot(path) \o BACKUP_SUFFIX \o NumberSuffix(i, 3) \o SplitExtExt(path)

\* a get_backup_path that gives no backup path without a backup directory
GetBackupPathInDir(fs, path, backup_dir) ==
    IF backup_dir = <<>> THEN <<>> ELSE BackupPlain(path, backup_dir)

\* get_backup_path (path, backup_dir): the first name that does not exist;
\* the name with the last number when every name exists
GetBackupPath(fs, path, backup_dir) ==
    IF ~PathExists(fs, BackupPlain(path, backup_dir)) THEN BackupPlain(path, backup_dir)
    ELSE LET free == { i \in 1..LastBackupNumber :
                           ~PathExists(fs, BackupNumbered(path, backup_dir, i)) }
         IN  IF free = {} THEN BackupNumbered(path, backup_dir, LastBackupNumber)
             ELSE BackupNumbered(path, backup_dir,
                                 CHOOSE i \in free : \A j \in free : i <= j)

\* The state of a WmFiles object and of the file system it works on is the
\* record w: fs, empty_dirs, files_found, files_converted, and the history
\* log (one entry per __convert_file call) and landed (the normalized paths
\* of the files the run left in place: outputs and retained backups).

RECURSIVE AllAbove(_, _)
\* the directories above dir, on disk or not, the nearest first
AllAbove(fs, dir) ==
    IF SplitHead(dir) # <<>> /\ SplitHead(dir) # dir
    THEN <<SplitHead(dir)>> \o AllAbove(fs, SplitHead(dir))
    ELSE <<>>

RECURSIVE MissingAbove(_, _)
\* the while loop of __create_dir: the directories above dir that do not
\* exist, the nearest first
MissingAbove(fs, dir) ==
    IF SplitHead(dir) # <<>> /\ SplitHead(dir) # dir /\ ~PathExists(fs, SplitHead(dir))
    THEN <<SplitHead(dir)>> \o MissingAbove(fs, SplitHead(dir))
    ELSE <<>>

\* WmFiles.__create_dir (path): [w, ok]
CreateDir(w, path, mkdir_ok) ==
    IF PathExists(w.fs, path) THEN [w |-> w, ok |-> TRUE]
    ELSE IF MakeDirs(w.fs, path, mkdir_ok).ok
    THEN [w |-> [w EXCEPT !.fs = MakeDirs(w.fs, path, mkdir_ok).fs,
                          !.empty_dirs = @ \o <<path>> \o MissingAbove(w.fs, path)],
          ok |-> TRUE]
    ELSE [w |-> w, ok |-> FALSE]

\* a __file_created that takes the directory of the file out of empty_dirs
\* and leaves the directories above it in
OnlyParentDir(path) ==
    IF SplitHead(path) = <<>> THEN {} ELSE {SplitHead(path)}

RECURSIVE DirsAbove(_)
\* the while loop of __file_created: the directories above dir
DirsAbove(dir) ==
    IF SplitHead(dir) # <<>> /\ SplitHead(dir) # dir
    THEN {SplitHead(dir)} \cup DirsAbove(SplitHead(dir))
    ELSE {}

\* full_dirs of __file_created (path); empty when path has no directory
FullDirs(path) ==
    IF SplitHead(path) = <<>> THEN {} ELSE {SplitHead(path)} \cup DirsAbove(SplitHead(path))

\* WmFiles.__file_created (path)
FileCreated(w, path) ==
    LET NotFull(d) == d \notin FullDirs(path)
    IN  [w EXCEPT !.empty_dirs = SelectSeq(@, NotFull)]

\* __make_backup_root: backup_root before the loop
BackupRootBase(fs, path) ==
    IF PathIsDir(fs, path)
    THEN Join(Join(IF SplitTail(path) = <<>> THEN <<>> ELSE SplitHead(path),
                   BACKUP_DIR_NAME),
              IF SplitTail(path) = <<>> THEN SplitHead(path) ELSE SplitTail(path))
    ELSE Join(IF SplitTail(path) = <<>> THEN <<>> ELSE SplitHead(path), BACKUP_DIR_NAME)

\* __make_backup_root: res of iteration i
BackupRootName(backup_root, i) ==
    IF i > 0 THEN backup_root \o NumberSuffix(i, 2) ELSE backup_root

\* __make_backup_root: the iterations whose res passes the tests made
\* before __create_dir: a name that does not exist, or for a file source
\* a directory
BackupRootTries(fs, backup_root, source_is_dir) ==
    { i \in 0..(BACKUP_ROOT_NAMES - 1) :
        IF source_is_dir THEN ~PathExists(fs, BackupRootName(backup_root, i))
        ELSE \/ PathIsDir(fs, BackupRootName(backup_root, i))
             \/ ~PathExists(fs, BackupRootName(backup_root, i)) }

\* __make_backup_root: the iterations that return a directory found on disk
BackupRootFound(fs, backup_root, source_is_dir) ==
    { i \in 0..(BACKUP_ROOT_NAMES - 1) :
        ~source_is_dir /\ PathIsDir(fs, BackupRootName(backup_root, i)) }

\* the least number of a non-empty set of numbers
Least(S) == CHOOSE i \in S : \A j \in S : i <= j

\* the for loop of __make_backup_root: [w, res].  The names differ in the
\* last component only and the step has one outcome for os.makedirs, so
\* when __create_dir fails for one name it fails for every later one, and
\* the loop goes on to the first directory found on disk.
BackupRootLoop(w, backup_root, source_is_dir, mkdir_ok) ==
    IF BackupRootTries(w.fs, backup_root, source_is_dir) = {}
    THEN [w |-> w, res |-> <<>>]
    ELSE LET res == BackupRootName(backup_root,
                                   Least(BackupRootTries(w.fs, backup_root, source_is_dir)))
             found == BackupRootFound(w.fs, backup_root, source_is_dir)
         IN  IF ~source_is_dir /\ PathIsDir(w.fs, res) THEN [w |-> w, res |-> res]
             ELSE IF CreateDir(w, res, mkdir_ok).ok
             THEN [w |-> CreateDir(w, res, mkdir_ok).w, res |-> res]
             ELSE IF found = {} THEN [w |-> w, res |-> <<>>]
             ELSE [w |-> w, res |-> BackupRootName(backup_root, Least(found))]

\* the history entry of a __make_backup_root call: the directory the
\* backup root is derived for (the directory source, or the directory of
\* the file source) and the root returned; r is the outcome of the call
RootCalled(r, path, source_is_dir) ==
    [w |-> [r.w EXCEPT !.root_calls =
               Append(@, [path |-> path,
                          dir |-> IF source_is_dir THEN path ELSE SplitHead(path),
                          source_is_dir |-> source_is_dir,
                          res |-> r.res])],
     res |-> r.res]

\* WmFiles.__make_backup_root (path): [w, res], res empty on failure
MakeBackupRoot(w, path, mkdir_ok) ==
    RootCalled(BackupRootLoop(w, BackupRootBase(w.fs, path), PathIsDir(w.fs, path),
                              mkdir_ok),
               path, PathIsDir(w.fs, path))

\* the history entry of a __convert_file call; taken: backup existed when
\* get_backup_path returned it
LogEntry(w, source, target, backup) ==
    [source |-> source, target |-> target, backup |-> backup,
     taken |-> backup # <<>> /\ source # backup /\ PathExists(w.fs, backup),
     content |-> IF PathIsFile(w.fs, source) THEN w.fs.files[NormPath(source)]
                 ELSE [orig |-> <<>>, gen |-> 0],
     moved |-> FALSE, exit |-> "none", reverted |-> "none"]

\* a failed conversion that leaves the original at its backup path
ConvertFailedKept(w, e, src, source, rv) ==
    [w EXCEPT !.log = Append(@, [e EXCEPT !.exit = "failed", !.reverted = "ok"])]

\* __convert_file, the branch of a non-zero exit status; rv is the outcome
\* of image.move (source)
ConvertFailed(w, e, src, source, rv) ==
    IF src = source
    THEN [w EXCEPT !.log = Append(@, [e EXCEPT !.exit = "failed"])]
    ELSE IF rv.ok
    THEN [w EXCEPT !.fs = rv.fs,
                   !.log = Append(@, [e EXCEPT !.exit = "failed", !.reverted = "ok"])]
    ELSE FileCreated([w EXCEPT !.log = Append(@, [e EXCEPT !.exit = "failed",
                                                            !.reverted = "failed"]),
                               !.landed = @ \cup {NormPath(src)}],
                     src)

\* __file_created (path) if cond
FileCreatedIf(cond, w, path) == IF cond THEN FileCreated(w, path) ELSE w

\* __convert_file, the branch of exit status 0; fs is the file system after
\* the conversion
ConvertSucceeded(w, e, src, source, target, fs) ==
    FileCreatedIf(source # target,
        FileCreatedIf(src # source,
            [w EXCEPT !.fs = fs,
                      !.files_converted = @ + 1,
                      !.log = Append(@, [e EXCEPT !.exit = "ok"]),
                      !.landed = @ \cup {NormPath(target)}
                                   \cup (IF src # source THEN {NormPath(src)} ELSE {})],
            src),
        target)

\* __convert_file from step 4 on, cv being the outcome of the conversion
ConvertDone(w, e, src, source, target, out, cv) ==
    IF cv.ok THEN ConvertSucceeded(w, e, src, source, target, cv.fs)
    ELSE ConvertFailed(w, e, src, source, MoveFile(w.fs, src, source, out.revert_ok))

\* __convert_file from step 4 on: cmd_exitcode raises when the conversion
\* executable is missing
ConvertFrom(w, e, src, source, target, out) ==
    IF out.tool = "no_convert"
    THEN [w |-> [w EXCEPT !.log = Append(@, [e EXCEPT !.exit = "missing"])],
          aborted |-> TRUE]
    ELSE [w |-> ConvertDone(w, e, src, source, target, out,
                            RunConvert(w.fs, src, target, out.exit_ok)),
          aborted |-> FALSE]

\* __convert_file, step 3 with a backup to make; mv is the outcome of
\* image.move (backup)
ConvertBackedUp(w, e, source, target, backup, out, mv) ==
    IF ~mv.ok THEN [w |-> [w EXCEPT !.log = Append(@, e)], aborted |-> FALSE]
    ELSE ConvertFrom([w EXCEPT !.fs = mv.fs], [e EXCEPT !.moved = TRUE],
                     backup, source, target, out)

\* the name of the first label file of a directory: prefix MAGIC_LABEL,
\* "_94350621_TMP", number 0, extension txt
LABEL_FILE_NAME ==
    <<"M","A","G","I","C","_","L","A","B","E","L","_","9","4","3","5","0","6","2","1",
      "_","T","M","P","0",".","t","x","t">>

\* WmLabel.text (target_dir) in __convert_file.  w.label_file is "none" in
\* a run whose label needs no file, "wanted" until the WmLabelText has made
\* its label file, and "made" from then on: the file is made once, in the
\* directory of the first target, and stays until the WmLabel goes away.
LabelFileMade(w, target) ==
    IF w.label_file # "wanted" THEN w
    ELSE [w EXCEPT !.label_file = "made",
                   !.fs = [@ EXCEPT !.files =
                              [k \in DOMAIN @ \cup {NormPath(Join(SplitHead(target),
                                                                  LABEL_FILE_NAME))} |->
                                  IF k \in DOMAIN @ THEN @[k]
                                  ELSE [orig |-> k, gen |-> 0]]]]

\* __convert_file from step 2 on, w being the world after WmLabel.text
ConvertLabelled(w, source, target, backup, out) ==
    IF backup # <<>> /\ source # backup
    THEN ConvertBackedUp(w, LogEntry(w, source, target, backup), source, target, backup,
                         out, MoveFile(w.fs, source, backup, out.move_ok))
    ELSE ConvertFrom(w, LogEntry(w, source, target, backup), source, source, target, out)

\* __convert_file without the test of target against backup
ConvertFileUnguarded(w, source, target, backup, out) ==
    IF out.tool = "no_identify" THEN [w |-> w, aborted |-> TRUE]
    ELSE ConvertLabelled(LabelFileMade(w, target), source, target, backup, out)

\* WmFiles.__convert_file (source, target, backup): [w, aborted];
\* image.width () raises when the query executable is missing
ConvertFile(w, source, target, backup, out) ==
    IF target = backup THEN [w |-> w, aborted |-> FALSE]
    ELSE IF out.tool = "no_identify" THEN [w |-> w, aborted |-> TRUE]
    ELSE ConvertLabelled(LabelFileMade(w, target), source, target, backup, out)

\* a __good_type that counts nothing
FoundUncounted(w) == w

\* the count of __good_type for a file of a supported type
Found(w) == [w EXCEPT !.files_found = @ + 1]

\* the locals of __process_dir and __process_dir_inplace, with the state of
\* os.walk: the directories still to visit (stack), the directory being
\* visited (dir) and its files still to handle (todo)
NoWalk ==
    [root |-> <<>>, stack |-> <<>>, dir |-> <<>>, todo |-> {},
     backup_root |-> <<>>, backup_root_error |-> FALSE,
     backup_dir |-> <<>>, backup_dir_error |-> FALSE, target_dir |-> <<>>]

\* the locals of __process_files and __process_files_inplace
NoFilesLoop ==
    [root |-> <<>>, root_processed |-> FALSE, backup_root |-> <<>>,
     target_root_created |-> FALSE]

\* __process_dir_inplace: backup_root and backup_root_error after
\* __make_backup_root returned r
InplaceRootSet(lp, r) ==
    [w |-> r.w,
     lp |-> [lp EXCEPT !.backup_root = r.res, !.backup_root_error = (r.res = <<>>)]]

\* __process_dir_inplace: the backup root is made for the first file that
\* needs one
InplaceRoot(w, lp, mkdir_ok) ==
    IF lp.backup_root = <<>> /\ ~lp.backup_root_error
    THEN InplaceRootSet(lp, MakeBackupRoot(w, lp.root, mkdir_ok))
    ELSE [w |-> w, lp |-> lp]

\* __process_dir_inplace: backup_dir below the root, c being the outcome of
\* __create_dir (backup_dir)
InplaceDirSet(s, backup_dir, c) ==
    IF backup_dir # <<>> /\ c.ok
    THEN [w |-> c.w,
          lp |-> [s.lp EXCEPT !.backup_dir = backup_dir, !.backup_dir_error = FALSE]]
    ELSE [w |-> s.w,
          lp |-> [s.lp EXCEPT !.backup_dir = <<>>, !.backup_dir_error = TRUE]]

\* __process_dir_inplace: backup_dir below the root
InplaceDirBelow(s, backup_dir, mkdir_ok) ==
    InplaceDirSet(s, backup_dir, CreateDir(s.w, backup_dir, mkdir_ok))

\* __process_dir_inplace: backup_dir and backup_dir_error of the directory
\* being visited; s is [w, lp] after InplaceRoot
InplaceDir(s, mkdir_ok) ==
    IF s.lp.backup_root = <<>>
    THEN [w |-> s.w, lp |-> [s.lp EXCEPT !.backup_dir_error = TRUE]]
    ELSE IF s.lp.dir = s.lp.root
    THEN [w |-> s.w,
          lp |-> [s.lp EXCEPT !.backup_dir = s.lp.backup_root,
                              !.backup_dir_error = FALSE]]
    ELSE InplaceDirBelow(s, GetTargetPath(s.lp.root, s.lp.backup_root, s.lp.dir),
                         mkdir_ok)

\* __process_dir: target_dir of the directory being visited, c being the
\* outcome of __create_dir (target_dir)
TargetDirSet(lp, target_dir, c) ==
    [w |-> c.w, lp |-> [lp EXCEPT !.target_dir = target_dir], ok |-> c.ok]

\* __process_dir: target_dir is made for the first file of the directory
TargetDir(w, lp, target_root, mkdir_ok) ==
    IF lp.target_dir = <<>>
    THEN TargetDirSet(lp, GetTargetPath(SplitHead(lp.root), target_root, lp.dir),
                      CreateDir(w, GetTargetPath(SplitHead(lp.root), target_root, lp.dir),
                                mkdir_ok))
    ELSE [w |-> w, lp |-> lp, ok |-> TRUE]

\* __process_files_inplace: root, backup_root and root_processed after
\* __make_backup_root returned r
FilesRootSet(lp, dir, r) ==
    [w |-> r.w,
     lp |-> [lp EXCEPT !.root = dir, !.backup_root = r.res, !.root_processed = TRUE]]

\* __process_files_inplace: the backup root is made when the directory of
\* the file differs from the one of the file before
FilesRoot(w, lp, path, mkdir_ok) ==
    IF lp.root # SplitHead(path) \/ ~lp.root_processed
    THEN FilesRootSet(lp, SplitHead(path), MakeBackupRoot(w, path, mkdir_ok))
    ELSE [w |-> w, lp |-> lp]

\* the source and the destination are the same: the test of WmFiles.convert
SameAsTarget(src, target_root) == src = target_root

\* WmFiles.convert: src is rejected as "Source and destination files are
\* the same"
Rejected(src, target_root) ==
    /\ target_root # <<>>
    /\ \/ SplitHead(src) = target_root
       \/ SplitHead(src) = <<>> /\ target_root = <<".">>

\* the sources of the kind asked for in the order of self.paths
ScannedUnsorted(fs, paths, target_root, want_dirs) ==
    LET Wanted(src) == /\ PathExists(fs, src)
                       /\ ~Rejected(src, target_root)
                       /\ PathIsDir(fs, src) = want_dirs
    IN  SelectSeq([k \in 1..Len(paths) |-> NormPath(paths[k])], Wanted)

\* WmFiles.convert: the sources of the kind asked for (directories or
\* files) that exist and are not rejected, sorted
Scanned(fs, paths, target_root, want_dirs) ==
    LET Wanted(src) == /\ PathExists(fs, src)
                       /\ ~Rejected(src, target_root)
                       /\ PathIsDir(fs, src) = want_dirs
    IN  SortSeq(SelectSeq([k \in 1..Len(paths) |-> NormPath(paths[k])], Wanted), StrLess)

\* WmFiles.set_target: target_root
SetTarget(target) == IF target # <<>> THEN NormPath(target) ELSE <<>>

\* the list sorted in ascending order
SortedForward(list) == SortSeq(list, StrLess)

\* list.sort (reverse = True)
SortedReverse(list) == SortSeq(list, LAMBDA a, b : StrLess(b, a))

\* shutil.rmtree (dir, ignore_errors = True): the directories left; an
\* rmtree that fails leaves the tree as it is
RmTree(fs, dir, rm_ok) ==
    IF rm_ok
    THEN [fs EXCEPT !.dirs = { k \in @ : NormPath(dir) \notin UpKeys(k) }]
    ELSE fs

RECURSIVE CleanLoop(_, _, _, _)
\* the for loop of __clean_empty_dirs from entry k of the sorted list on;
\* failed holds the entries whose rmtree fails, st is [fs, cleaned], cleaned
\* the history of the entries handled
CleanLoop(sorted, k, failed, st) ==
    IF k > Len(sorted) THEN st
    ELSE LET has_files == HasFilesBelow(st.fs, sorted[k])
             entry == [dir |-> sorted[k], has_files |-> has_files,
                       failed |-> ~has_files /\ k \in failed]
         IN  CleanLoop(sorted, k + 1, failed,
                       [fs |-> IF has_files THEN st.fs
                               ELSE RmTree(st.fs, sorted[k], k \notin failed),
                        cleaned |-> Append(st.cleaned, entry)])

\* WmFiles.__clean_empty_dirs: the file system and the history after it
Cleaned(fs, empty_dirs, failed) ==
    CleanLoop(SortedReverse(empty_dirs), 1, failed, [fs |-> fs, cleaned |-> <<>>])

\* the orders os.walk may list the names S in
Orders(S) ==
    { f \in [1..Cardinality(S) -> S] : \A i, j \in 1..Cardinality(S) : i # j => f[i] # f[j] }

\* ------------------------------------------------------------------------
\* WmImageMetrics: one instance and its cached fields
\* ------------------------------------------------------------------------

\* WmImageMetrics.__init__
MetricsNew ==
    [orientation |-> "", width |-> -1, height |-> -1,
     date_loaded |-> FALSE, date_error |-> FALSE,
     date |-> << <<>>, <<>>, <<>>, <<>>, <<>>, <<>> >>]

\* history of the metadata queries of one instance: the number issued for
\* each field, the pass over the date tags and the tags asked in it, and
\* the fields whose fetch failed
NoQueries ==
    [orientation |-> 0, width |-> 0, height |-> 0, date |-> 0, tags |-> 0,
     failed |-> {}]

\* if self.__orientation
OrientationCached(o) == o # ""

\* WmImageMetrics.orientation on instance m: [m, q, ret]; ans is the
\* answer of the query if one is issued
MetricsOrientation(m, q, ans) ==
    IF OrientationCached(m.orientation) THEN [m |-> m, q |-> q, ret |-> m.orientation]
    ELSE [m |-> [m EXCEPT !.orientation = Orientation([orientation |-> ans])],
          q |-> [q EXCEPT !.orientation = @ + 1,
                          !.failed = @ \cup (IF ans \in DOMAIN ORIENTATIONS_MAP THEN {}
                                             ELSE {"orientation"})],
          ret |-> Orientation([orientation |-> ans])]

\* a width or height that remembers a fetch only when it is positive
SizeCachedPositive(v) == v > 0

\* if self.__width >= 0 / if self.__height >= 0
SizeCached(v) == v >= 0

\* the value __get_width_or_height makes of the answer of its query, -1
\* standing for an answer that is no number
SizeOfAnswer(answer) == IF answer < 0 THEN 0 ELSE answer

\* WmImageMetrics.width / height after the fetch; o is the outcome of
\* self.orientation ()
MetricsFetched(o, get_width, answer) ==
    [m |-> IF get_width THEN [o.m EXCEPT !.width = SizeOfAnswer(answer)]
           ELSE [o.m EXCEPT !.height = SizeOfAnswer(answer)],
     q |-> IF get_width
           THEN [o.q EXCEPT !.width = @ + 1,
                            !.failed = @ \cup (IF answer < 0 THEN {"width"} ELSE {})]
           ELSE [o.q EXCEPT !.height = @ + 1,
                            !.failed = @ \cup (IF answer < 0 THEN {"height"} ELSE {})],
     ret |-> SizeOfAnswer(answer)]

\* WmImageMetrics.width (get_width) and height on instance m: [m, q, ret];
\* o_ans and answer are the answers of the queries if they are issued
MetricsSize(m, q, get_width, o_ans, answer) ==
    IF SizeCached(IF get_width THEN m.width ELSE m.height)
    THEN [m |-> m, q |-> q, ret |-> IF get_width THEN m.width ELSE m.height]
    ELSE MetricsFetched(MetricsOrientation(m, q, o_ans), get_width, answer)

\* the number of tags the loop of __get_exif_date asks: up to the first
\* answer that is not empty
TagsAsked(exif) ==
    LET hits == { k \in 1..Len(exif) : exif[k].kind # "empty" }
    IN  IF hits = {} THEN Len(exif) ELSE CHOOSE k \in hits : \A j \in hits : k <= j

\* WmImageMetrics.__get_exif_date on instance m: [m, q, ok]; exif holds
\* the answers for the three tags if the pass is made
MetricsDate(m, q, exif) ==
    IF m.date_error THEN [m |-> m, q |-> q, ok |-> FALSE]
    ELSE IF m.date_loaded THEN [m |-> m, q |-> q, ok |-> TRUE]
    ELSE IF GetExifDate([exif |-> exif]) = <<>>
    THEN [m |-> [m EXCEPT !.date_loaded = TRUE, !.date_error = TRUE],
          q |-> [q EXCEPT !.date = @ + 1, !.tags = @ + TagsAsked(exif),
                          !.failed = @ \cup {"date"}],
          ok |-> FALSE]
    ELSE [m |-> [m EXCEPT !.date_loaded = TRUE, !.date = GetExifDate([exif |-> exif])],
          q |-> [q EXCEPT !.date = @ + 1, !.tags = @ + TagsAsked(exif)],
          ok |-> TRUE]

\* year, month, day, hour, minute, sec (field n of the six): [m, q, ret];
\* r is the outcome of self.__get_exif_date ()
MetricsField(r, n) ==
    [m |-> r.m, q |-> r.q, ret |-> IF r.ok THEN r.m.date[n] ELSE <<>>]

\* ------------------------------------------------------------------------
\* State
\* ------------------------------------------------------------------------

VARIABLES
    template,     \* WmLabelTemplate.__template
    parse,        \* the locals of __get_spans, with __spans and static
    image,        \* WmLabel.image, the current WmImageMetrics
    label_text,   \* the text __compose returned for image
    lpc,          \* "parse", "compose" (template parsed), "composed";
                  \* "ready", "delivered", "raised", "aborted", "ended" for
                  \* WmLabel.text
    wtext,        \* WmLabel.__text, the WmLabelText object
    tmp_disk,     \* the label files on disk: path -> lines
    annotate,     \* what WmLabel.text returned for image
    last_io,      \* outcomes of the file operations of the last WmLabel.text
    cur_dir,      \* the dir argument of the last WmLabel.text
    n_images,     \* number of WmLabel.text calls so far
    tmp_hist      \* history: the label files the run wrote (written) and
                  \* those whose os.remove failed (stuck)

lvars == <<template, parse, image, label_text, lpc>>

dvars == <<wtext, tmp_disk, annotate, last_io, cur_dir, n_images, tmp_hist>>

VARIABLES
    fs,               \* the file system: [dirs, files]
    paths,            \* WmFiles.paths, the sources of the command line
    target_root,      \* WmFiles.target_root, empty for conversion in place
    backup_enabled,   \* WmFiles.backup_enabled
    dirs,             \* the sorted directory sources of WmFiles.convert
    files,            \* the sorted file sources of WmFiles.convert
    empty_dirs,       \* WmFiles.empty_dirs
    files_found,      \* WmFiles.files_found
    files_converted,  \* WmFiles.files_converted
    log,              \* history: one entry per __convert_file call
    landed,           \* history: outputs and retained backups of the run
    label_file,       \* "none", "wanted" or "made": the label file of the run
    call,             \* history: the last direct call of __convert_file
    cleaned,          \* history: the entries __clean_empty_dirs handled, in order
    root_calls,       \* history: one entry per __make_backup_root call
    rpc,              \* the position of WmFiles.convert: "start", "dirs",
                      \* "walk", "files", "clean", "done", "aborted"
    di,               \* index in dirs of the directory source being walked
    fi,               \* index in files of the next file source
    walk,             \* locals of __process_dir / __process_dir_inplace
    floop             \* locals of __process_files / __process_files_inplace

wvars == <<fs, empty_dirs, files_found, files_converted, log, landed, root_calls, cleaned,
          label_file, call>>

rvars == <<wvars, paths, target_root, backup_enabled, dirs, files, rpc, di, fi, walk, floop>>

VARIABLES
    metrics,      \* the private fields of one WmImageMetrics instance
    queries,      \* history: the metadata queries issued for the instance
    ret,          \* the last accessor called and what it returned
    mpc,          \* "calls" while accessors are called, "aborted", "idle"
    n_calls       \* number of accessor calls so far

VARIABLES
    font,         \* WmLabel.__font_size, __exact_font_size, __stroke_width
    font_hist,    \* history: the max side and the font size of the image
                  \* fitted before the current one
    resize_cmd    \* resize_cmd of __convert_file for the current image

fvars == <<font, font_hist, resize_cmd>>

mvars == <<metrics, queries, ret, mpc, n_calls, fvars>>

vars == <<lvars, dvars, rvars, mvars>>

\* no accessor was called
NoReturn == [name |-> "none", value |-> <<>>, queried |-> FALSE]

\* no WmImageMetrics instance under observation
MetricsIdle ==
    /\ metrics = MetricsNew
    /\ queries = NoQueries
    /\ ret = NoReturn
    /\ mpc = "idle"
    /\ n_calls = 0

\* no image was fitted before the current one
NoFit == [max_side |-> -1, font_size |-> 0]

\* no WmLabel whose font is fitted
FontIdle ==
    /\ font = FontNew
    /\ font_hist = NoFit
    /\ resize_cmd = <<>>

\* a file system with the current directory only
EmptyFs == [dirs |-> {Cwd}, files |-> <<>>]

\* no direct call of __convert_file was made
NoCall == [n |-> 0, source |-> <<>>, target |-> <<>>, backup |-> <<>>, tool |-> "none"]

\* no WmFiles object: the state of the run variables of a machine that
\* converts no file
RunIdle ==
    /\ fs = EmptyFs
    /\ paths = <<>>
    /\ target_root = <<>>
    /\ backup_enabled = TRUE
    /\ dirs = <<>>
    /\ files = <<>>
    /\ empty_dirs = <<>>
    /\ files_found = 0
    /\ files_converted = 0
    /\ log = <<>>
    /\ landed = {}
    /\ root_calls = <<>>
    /\ cleaned = <<>>
    /\ call = NoCall
    /\ label_file = "none"
    /\ rpc = "idle"
    /\ di = 0
    /\ fi = 0
    /\ walk = NoWalk
    /\ floop = NoFilesLoop

\* ------------------------------------------------------------------------
\* Inputs of the parser and of the composer
\* ------------------------------------------------------------------------

\* the characters the enumerated templates are made of
ParseChars == {"[", "]", "M", "D", "a"}

\* the label templates of the program's help text
HelpTemplates ==
    { <<"[","Y","Y","Y","Y","-","M","M","-","D","D"," ",
        "h","h",":","m","m",":","s","s","]">>,
      <<"[","M","o","n","t","h"," ","Y","Y","Y","Y",","," ","]",
        "[","f","i","l","e","_","n","a","m","e","]">>,
      <<"[","[","s","q","u","a","r","e"," ","b","r","a","c","k","e","t","s","]","]">>,
      <<"[","Y","Y","Y","Y"," ","y","e","a","r","]">>,
      <<"[","M","O","N","T","H"," ","Y","Y","Y","Y",","," ","]",
        "(","C",")"," ","A","u","t","h","o","r">>,
      <<"[","m","o","n","t","h"," ","D","D",","," ","Y","Y","Y","Y","."," ","]",
        "A","n","y"," ","t","e","x","t">> }

\* texts without brackets, with and without tag names
EscapedTexts ==
    { <<>>, <<"M","M">>, <<"D","D"," ","a">>, <<"Y","Y","Y","Y">>,
      <<"f","i","l","e","_","n","a","m","e">>, <<"a","M","o","n","t","h">> }

\* the templates [[text]]
EscapedTemplates == { <<"[","[">> \o x \o <<"]","]">> : x \in EscapedTexts }

\* templates that end inside a bracket region, after a group and some text
UnclosedTemplates ==
    { <<"[","D","D","]","a","[","M">>,
      <<"[","Y","Y","Y","Y","]"," ","[","f","i","l","e","_","n","a","m","e">> }

Templates ==
    StringsUpTo(ParseChars, MaxTemplateLen) \cup HelpTemplates \cup EscapedTemplates
        \cup UnclosedTemplates

GoodDate ==
    ExifDate(<<"2","0","2","0">>, <<"0","8">>, <<"2","0">>,
             <<"1","6">>, <<"3","3">>, <<"5","3">>)

\* a date the regular expression matches whose month is no key of MONTH_NAMES
OddMonthDate ==
    ExifDate(<<"2","0","2","0">>, <<"1","3">>, <<"2","0">>,
             <<"1","6">>, <<"3","3">>, <<"5","3">>)

\* the answers for DateTimeOriginal, DateTimeDigitized, DateTime
ExifAnswers ==
    { <<GoodDate, ExifEmpty, ExifEmpty>>,
      <<ExifEmpty, ExifEmpty, OddMonthDate>>,
      <<ExifEmpty, ExifGarbage, GoodDate>>,
      <<ExifEmpty, ExifEmpty, ExifEmpty>> }

NoImage ==
    [file_name |-> <<>>, exif |-> <<>>, orientation |-> "", im_w |-> 0, im_h |-> 0]

ParseImages ==
    { [file_name |-> <<"H","A","P","P","Y","_","S","H","O","T">>, exif |-> e,
       orientation |-> "1", im_w |-> 1920, im_h |-> 1440] :
        e \in ExifAnswers }

\* ------------------------------------------------------------------------
\* The parser and the composer as a machine: one loop iteration per step
\* ------------------------------------------------------------------------

InitParse ==
    /\ template \in Templates
    /\ parse = ParseStart
    /\ image = NoImage
    /\ label_text = <<>>
    /\ lpc = "parse"
    /\ wtext = NoLabelText
    /\ tmp_disk = <<>>
    /\ annotate = NoAnnotation
    /\ last_io = NoIo
    /\ cur_dir = <<>>
    /\ n_images = 0
    /\ tmp_hist = NoTempFiles
    /\ RunIdle
    /\ MetricsIdle
    /\ FontIdle

\* one iteration of the for loop of __get_spans
ParseLoop ==
    /\ lpc = "parse" /\ parse.pc = "loop" /\ parse.i < Len(template)
    /\ parse' = ParseIter(template, parse)
    /\ UNCHANGED <<template, image, label_text, lpc, dvars, rvars, mvars>>

\* the statements of __get_spans after the loop
ParseFinish ==
    /\ lpc = "parse" /\ parse.pc = "loop" /\ parse.i >= Len(template)
    /\ parse' = ParseEnd(template, parse)
    /\ lpc' = "compose"
    /\ UNCHANGED <<template, image, label_text, dvars, rvars, mvars>>

\* WmLabel.set_image and WmLabel.__compose for one image
ComposeImage ==
    /\ lpc \in {"compose", "composed"}
    /\ template # <<>>
    /\ \E img \in ParseImages :
          /\ image' = img
          /\ label_text' = Compose(parse.spans, img)
    /\ lpc' = "composed"
    /\ UNCHANGED <<template, parse, dvars, rvars, mvars>>

NextParse == ParseLoop \/ ParseFinish \/ ComposeImage

SpecParse == InitParse /\ [][NextParse]_vars

\* ------------------------------------------------------------------------
\* WmLabel.text as a machine: one call per converted image
\* ------------------------------------------------------------------------

\* longest literal template drawn by InitLabel
MaxLabelLen == 3

\* number of images one WmLabel delivers a label for
MaxImages == 2

\* the characters the enumerated literal templates are made of
LabelChars == {"a", "\n", "é"}

FileNameTemplate == <<"[","f","i","l","e","_","n","a","m","e","]">>

LabelTemplates == StringsUpTo(LabelChars, MaxLabelLen) \cup {FileNameTemplate}

\* (answer for '%w', answer for '%h'): a landscape photo, a narrow strip
\* (line width 1), a thumbnail (exact font size 0)
Geometries == { <<1920, 1440>>, <<32, 1920>>, <<30, 20>> }

\* WmImageMetrics of file f with geometry g
LabelImage(f, g) ==
    [file_name |-> f, exif |-> <<GoodDate, ExifEmpty, ExifEmpty>>,
     orientation |-> "1", im_w |-> g[1], im_h |-> g[2]]

LabelImages ==
    { LabelImage(<<"a", "a">>, g) : g \in Geometries }
        \cup { LabelImage(<<"a", "é">>, <<1920, 1440>>) }

\* the target directories of the converted images
LabelDirs == { << <<"t">> >>, << <<"u">> >> }

\* the label files found on disk at start: none, or every name taken in t
InitialDisks ==
    { <<>>,
      [q \in { TempPath(<< <<"t">> >>, i) : i \in 0..(TEMP_FILE_NAMES - 1) } |-> <<>>] }

\* the outcomes of the file operations of one WmLabel.text call; a write
\* that succeeds has created the file
Outcomes ==
    { e \in [read_ok : BOOLEAN, write_ok : BOOLEAN, created : BOOLEAN, rm_ok : BOOLEAN] :
        e.write_ok => e.created }

\* how the rest of __convert_file ends: the conversion ran (with whatever
\* exit status), or its executable is missing and the run is aborted
ConvertEnds == {"ran", "missing"}

InitLabel ==
    /\ template \in LabelTemplates
    /\ parse = TemplateNew
    /\ image = NoImage
    /\ label_text = <<>>
    /\ lpc = "ready"
    /\ wtext = NoLabelText
    /\ tmp_disk \in InitialDisks
    /\ annotate = NoAnnotation
    /\ last_io = NoIo
    /\ cur_dir = <<>>
    /\ n_images = 0
    /\ tmp_hist = NoTempFiles
    /\ RunIdle
    /\ MetricsIdle
    /\ FontIdle

\* WmLabel.set_image (image) and WmLabel.text (target_dir) in __convert_file
LabelTextCallOn(images) ==
    /\ lpc \in {"ready", "delivered"}
    /\ n_images < MaxImages
    /\ \E img \in images, dir \in LabelDirs, env \in Outcomes, conv \in ConvertEnds :
       \E p1 \in {IF ReusesText(parse, wtext) THEN parse
                  ELSE TemplateSpans(template, parse)} :
       \E text \in {IF ReusesText(parse, wtext) THEN wtext.text
                    ELSE Compose(p1.spans, img)} :
       \E lw \in {LineWidth(img)} :
       \E lines \in {IF lw > 0 /\ Len(text) <= LABEL_MAX_SIZE * 2
                     THEN SplitLines(text, lw) ELSE <<>>} :
       \E r \in {LabelText(template, parse, label_text, wtext, tmp_disk, dir, env,
                           p1, text, lw, lines)} :
          /\ image' = img
          /\ cur_dir' = dir
          /\ parse' = r.parse
          /\ label_text' = r.label_text
          /\ wtext' = r.w
          /\ tmp_disk' = r.disk
          /\ last_io' = r.io
          /\ annotate' = r.annotate
          /\ tmp_hist' = TempHistory(tmp_hist, r.io, r.disk)
          /\ lpc' = IF r.raised THEN "raised"
                    ELSE IF conv = "missing" THEN "aborted" ELSE "delivered"
    /\ n_images' = n_images + 1
    /\ UNCHANGED <<template, rvars, mvars>>

\* __convert_file for one of the images of the label machine
LabelTextCall == LabelTextCallOn(LabelImages)

\* WmTempFile.__del__ when the WmLabel goes away at the end of the run:
\* main returns, or the interpreter exits on the exception that aborted
\* the run
LabelDelete ==
    /\ lpc \in {"ready", "delivered", "raised", "aborted"}
    /\ \E rm_ok \in BOOLEAN :
       \E io \in {[NoIo EXCEPT !.removed = TempDelOutcome(wtext.file_path, tmp_disk, rm_ok),
                                !.path = wtext.file_path]} :
          /\ tmp_disk' = TempDel(wtext.file_path, tmp_disk, rm_ok)
          /\ last_io' = io
          /\ tmp_hist' = TempHistory(tmp_hist, io, tmp_disk)
    /\ wtext' = NoLabelText
    /\ lpc' = "ended"
    /\ UNCHANGED <<template, parse, image, label_text, annotate, cur_dir, n_images, rvars, mvars>>

NextLabel == LabelTextCall \/ LabelDelete

SpecLabel == InitLabel /\ [][NextLabel]_vars

\* the run ends: the loop over the files is finite and the WmLabel is
\* destroyed when main returns or the interpreter exits
SpecLabelEnds == SpecLabel /\ WF_vars(LabelDelete)

\* ------------------------------------------------------------------------
\* WmFiles.convert as a machine: one step per scan, per directory visited
\* and per file, without a label (the default template is empty)
\* ------------------------------------------------------------------------

ImgX == <<"x", ".", "j", "p", "g">>

ImgY == <<"y", ".", "J", "P", "G">>

TxtN == <<"n", ".", "t", "x", "t">>

DirA == <<"a">>

DirB == <<"b">>

DirAS == Join(DirA, <<"s">>)

\* the directory __make_backup_root gives the file sources of a
DirABackup == Join(DirA, BACKUP_DIR_NAME)

BaseDirs == {Cwd, DirA, DirAS, DirB}

BaseFiles == {Join(DirA, ImgX), Join(DirAS, ImgX), Join(DirB, ImgX), Join(DirB, TxtN), ImgY}

\* backups an earlier run left for a/x.jpg: none (n < 0), or the plain
\* name and the names numbered up to n
EarlierBackups(n) ==
    IF n < 0 THEN {}
    ELSE {BackupPlain(Join(DirA, ImgX), DirABackup)}
             \cup { BackupNumbered(Join(DirA, ImgX), DirABackup, i) : i \in 1..n }

InitialFs(n) ==
    [dirs |-> BaseDirs \cup (IF n < 0 THEN {} ELSE {DirABackup}),
     files |-> [k \in BaseFiles \cup EarlierBackups(n) |-> [orig |-> k, gen |-> 0]]]

FileSources ==
    {Join(DirA, ImgX), Join(DirB, ImgX), <<".", "/">> \o Join(DirA, ImgX), ImgY,
     Join(DirB, TxtN), <<"z">>}

Sources == {DirA, DirB} \cup FileSources

PathLists == { <<p>> : p \in Sources } \cup { <<p, q>> : p \in Sources, q \in Sources }

\* a second photo of the directory a
ImgB == <<"b", ".", "j", "p", "g">>

\* three file sources that sort with a file of a/s between two files of a
Interleaved == <<Join(DirA, ImgB), Join(DirAS, ImgX), Join(DirA, ImgX)>>

\* the file system f0 with one more file
WithFile(f0, name) ==
    [f0 EXCEPT !.files = [k \in DOMAIN @ \cup {name} |->
                             IF k = name THEN [orig |-> name, gen |-> 0] ELSE @[k]]]

\* the --destination arguments; the empty one converts in place
Targets == {<<>>, <<"t", "/">>, <<".">>, DirA, <<"n", "/", "m">>}

\* the outcomes of the external operations of one step
AllOk ==
    [tool |-> "ok", mkdir_ok |-> TRUE, move_ok |-> TRUE, exit_ok |-> TRUE,
     revert_ok |-> TRUE]

RunOutcomes ==
    { AllOk,
      [AllOk EXCEPT !.mkdir_ok = FALSE],
      [AllOk EXCEPT !.move_ok = FALSE],
      [AllOk EXCEPT !.exit_ok = FALSE],
      [AllOk EXCEPT !.exit_ok = FALSE, !.revert_ok = FALSE],
      [AllOk EXCEPT !.tool = "no_identify"],
      [AllOk EXCEPT !.tool = "no_convert"] }

\* no WmLabel text: the state of the label variables of a run without label
LabelIdle ==
    /\ template = <<>>
    /\ parse = TemplateNew
    /\ image = NoImage
    /\ label_text = <<>>
    /\ lpc = "idle"
    /\ wtext = NoLabelText
    /\ tmp_disk = <<>>
    /\ annotate = NoAnnotation
    /\ last_io = NoIo
    /\ cur_dir = <<>>
    /\ n_images = 0
    /\ tmp_hist = NoTempFiles

\* main: WmFiles (args.path), set_target (args.target), backup_enabled
InitRun ==
    /\ LabelIdle
    /\ MetricsIdle
    /\ FontIdle
    /\ \E n \in {-1, 0, LastBackupNumber}, pl \in PathLists \cup {Interleaved},
          tgt \in Targets :
          /\ n >= 0 => tgt = <<>> /\ \A k \in 1..Len(pl) : pl[k] \in FileSources
          /\ pl = Interleaved => tgt = <<>>
          /\ fs = IF pl = Interleaved THEN WithFile(InitialFs(n), Join(DirA, ImgB))
                  ELSE InitialFs(n)
          /\ paths = pl
          /\ target_root = SetTarget(tgt)
    /\ backup_enabled \in BOOLEAN
    /\ target_root # <<>> \/ fs.dirs # BaseDirs => backup_enabled
    /\ dirs = <<>>
    /\ files = <<>>
    /\ empty_dirs = <<>>
    /\ files_found = 0
    /\ files_converted = 0
    /\ log = <<>>
    /\ landed = {}
    /\ root_calls = <<>>
    /\ cleaned = <<>>
    /\ call = NoCall
    /\ label_file \in {"none", "wanted"}
    /\ label_file = "wanted" => target_root # <<>>
    /\ rpc = "start"
    /\ di = 0
    /\ fi = 0
    /\ walk = NoWalk
    /\ floop = NoFilesLoop

\* the WmFiles object and the file system as one record
World ==
    [fs |-> fs, empty_dirs |-> empty_dirs, files_found |-> files_found,
     files_converted |-> files_converted, log |-> log, landed |-> landed,
     root_calls |-> root_calls, label_file |-> label_file, call |-> call]

SetWorld(w) ==
    /\ fs' = w.fs
    /\ empty_dirs' = w.empty_dirs
    /\ files_found' = w.files_found
    /\ files_converted' = w.files_converted
    /\ log' = w.log
    /\ landed' = w.landed
    /\ root_calls' = w.root_calls
    /\ label_file' = w.label_file
    /\ call' = w.call
    /\ UNCHANGED cleaned

\* WmFiles.convert: the scan of self.paths and the two sorts
Scan ==
    /\ rpc = "start"
    /\ dirs' = Scanned(fs, paths, target_root, TRUE)
    /\ files' = Scanned(fs, paths, target_root, FALSE)
    /\ di' = 1
    /\ rpc' = "dirs"
    /\ UNCHANGED <<mvars, lvars, dvars, wvars, paths, target_root, backup_enabled, fi, walk, floop>>

\* for dir in dirs: the call of __process_dir or __process_dir_inplace
\* up to the first directory os.walk yields
StartDir ==
    /\ rpc = "dirs"
    /\ di <= Len(dirs)
    /\ walk' = [NoWalk EXCEPT !.root = dirs[di],
                              !.stack = IF PathIsDir(fs, dirs[di]) THEN <<dirs[di]>>
                                        ELSE <<>>]
    /\ rpc' = "walk"
    /\ UNCHANGED <<mvars, lvars, dvars, wvars, paths, target_root, backup_enabled, dirs, files,
                   di, fi, floop>>

\* the directory sources are done: files.sort () and the call of
\* __process_files or __process_files_inplace
StartFiles ==
    /\ rpc = "dirs"
    /\ di > Len(dirs)
    /\ fi' = 1
    /\ floop' = NoFilesLoop
    /\ rpc' = "files"
    /\ UNCHANGED <<mvars, lvars, dvars, wvars, paths, target_root, backup_enabled, dirs, files,
                   di, walk>>

\* os.walk yields the next directory: its files and subdirectories are
\* listed now, in an order of the system's choice
EnterDir ==
    /\ rpc = "walk"
    /\ walk.todo = {}
    /\ walk.stack # <<>>
    /\ \E order \in Orders(WalkSubdirs(fs, Head(walk.stack))) :
          walk' = [walk EXCEPT
                      !.dir = Head(walk.stack),
                      !.todo = WalkFiles(fs, Head(walk.stack)),
                      !.stack = [k \in 1..Len(order) |->
                                    Join(Head(walk.stack), order[k])]
                                    \o Tail(walk.stack),
                      !.backup_dir = <<>>,
                      !.backup_dir_error = FALSE,
                      !.target_dir = <<>>]
    /\ UNCHANGED <<mvars, lvars, dvars, wvars, paths, target_root, backup_enabled, dirs, files,
                   rpc, di, fi, floop>>

\* os.walk is exhausted: __process_dir or __process_dir_inplace returns
LeaveRoot ==
    /\ rpc = "walk"
    /\ walk.todo = {}
    /\ walk.stack = <<>>
    /\ di' = di + 1
    /\ rpc' = "dirs"
    /\ UNCHANGED <<mvars, lvars, dvars, wvars, paths, target_root, backup_enabled, dirs, files,
                   fi, walk, floop>>

\* a file of an unsupported type in the loop of __process_dir or
\* __process_dir_inplace
SkipDirFile ==
    /\ rpc = "walk"
    /\ \E file \in walk.todo :
          /\ ~GoodType(file)
          /\ walk' = [walk EXCEPT !.todo = @ \ {file}]
    /\ UNCHANGED <<mvars, lvars, dvars, wvars, paths, target_root, backup_enabled, dirs, files,
                   rpc, di, fi, floop>>

\* one iteration of the loop over files of __process_dir for a file of a
\* supported type
ProcessDirFile ==
    /\ rpc = "walk"
    /\ target_root # <<>>
    /\ \E file \in walk.todo, out \in RunOutcomes :
          /\ GoodType(file)
          /\ \E s \in {TargetDir(Found(World), walk, target_root, out.mkdir_ok)} :
                IF ~s.ok
                THEN /\ SetWorld(s.w)
                     /\ walk' = [s.lp EXCEPT !.todo = {}, !.stack = <<>>]
                     /\ rpc' = "walk"
                ELSE \E r \in {ConvertFile(s.w, Join(walk.dir, file),
                                           Join(s.lp.target_dir, file),
                                           Join(walk.dir, file), out)} :
                        /\ SetWorld(r.w)
                        /\ walk' = [s.lp EXCEPT !.todo = @ \ {file}]
                        /\ rpc' = IF r.aborted THEN "aborted" ELSE "walk"
    /\ UNCHANGED <<mvars, lvars, dvars, paths, target_root, backup_enabled, dirs, files,
                   di, fi, floop>>

\* one iteration of the loop over files of __process_dir_inplace for a file
\* of a supported type
ProcessDirInplaceFile ==
    /\ rpc = "walk"
    /\ target_root = <<>>
    /\ \E file \in walk.todo, out \in RunOutcomes :
          /\ GoodType(file)
          /\ \E s1 \in {IF backup_enabled /\ walk.backup_dir = <<>> /\ ~walk.backup_dir_error
                        THEN InplaceRoot(Found(World), walk, out.mkdir_ok)
                        ELSE [w |-> Found(World), lp |-> walk]} :
             \E s2 \in {IF backup_enabled /\ walk.backup_dir = <<>> /\ ~walk.backup_dir_error
                        THEN InplaceDir(s1, out.mkdir_ok)
                        ELSE s1} :
             \E backup \in {IF backup_enabled
                            THEN GetBackupPath(s2.w.fs, Join(walk.dir, file),
                                               s2.lp.backup_dir)
                            ELSE <<>>} :
             \E r \in {ConvertFile(s2.w, Join(walk.dir, file), Join(walk.dir, file),
                                   backup, out)} :
                /\ SetWorld(r.w)
                /\ walk' = [s2.lp EXCEPT !.todo = @ \ {file}]
                /\ rpc' = IF r.aborted THEN "aborted" ELSE "walk"
    /\ UNCHANGED <<mvars, lvars, dvars, paths, target_root, backup_enabled, dirs, files,
                   di, fi, floop>>

\* a file source of an unsupported type in the loop of __process_files or
\* __process_files_inplace
SkipFile ==
    /\ rpc = "files"
    /\ fi <= Len(files)
    /\ ~GoodType(files[fi])
    /\ fi' = fi + 1
    /\ UNCHANGED <<mvars, lvars, dvars, wvars, paths, target_root, backup_enabled, dirs, files,
                   rpc, di, walk, floop>>

\* one iteration of the loop of __process_files for a file of a supported
\* type
ProcessFile ==
    /\ rpc = "files"
    /\ target_root # <<>>
    /\ fi <= Len(files)
    /\ GoodType(files[fi])
    /\ \E out \in RunOutcomes :
       \E c \in {IF floop.target_root_created THEN [w |-> Found(World), ok |-> TRUE]
                 ELSE CreateDir(Found(World), target_root, out.mkdir_ok)} :
          IF ~c.ok
          THEN /\ SetWorld(c.w)
               /\ rpc' = "clean"
               /\ UNCHANGED <<fi, floop>>
          ELSE \E r \in {ConvertFile(c.w, files[fi],
                                     Join(target_root, SplitTail(files[fi])),
                                     files[fi], out)} :
                  /\ SetWorld(r.w)
                  /\ floop' = [floop EXCEPT !.target_root_created = TRUE]
                  /\ fi' = fi + 1
                  /\ rpc' = IF r.aborted THEN "aborted" ELSE "files"
    /\ UNCHANGED <<mvars, lvars, dvars, paths, target_root, backup_enabled, dirs, files, di, walk>>

\* one iteration of the loop of __process_files_inplace for a file of a
\* supported type
ProcessFileInplace ==
    /\ rpc = "files"
    /\ target_root = <<>>
    /\ fi <= Len(files)
    /\ GoodType(files[fi])
    /\ \E out \in RunOutcomes :
       \E s \in {IF backup_enabled
                 THEN FilesRoot(Found(World), floop, files[fi], out.mkdir_ok)
                 ELSE [w |-> Found(World), lp |-> floop]} :
       \E backup \in {IF backup_enabled
                      THEN GetBackupPath(s.w.fs, files[fi], s.lp.backup_root)
                      ELSE <<>>} :
       \E r \in {ConvertFile(s.w, files[fi], files[fi], backup, out)} :
          /\ SetWorld(r.w)
          /\ floop' = s.lp
          /\ fi' = fi + 1
          /\ rpc' = IF r.aborted THEN "aborted" ELSE "files"
    /\ UNCHANGED <<mvars, lvars, dvars, paths, target_root, backup_enabled, dirs, files, di, walk>>

\* the loop over the file sources is done
FilesDone ==
    /\ rpc = "files"
    /\ fi > Len(files)
    /\ rpc' = "clean"
    /\ UNCHANGED <<mvars, lvars, dvars, wvars, paths, target_root, backup_enabled, dirs, files,
                   di, fi, walk, floop>>

\* WmFiles.__clean_empty_dirs
CleanEmptyDirs ==
    /\ rpc = "clean"
    /\ \E failed \in SUBSET (1..Len(empty_dirs)) :
       \E r \in {Cleaned(fs, empty_dirs, failed)} :
          /\ fs' = r.fs
          /\ cleaned' = r.cleaned
    /\ empty_dirs' = <<>>
    /\ rpc' = "done"
    /\ UNCHANGED <<mvars, lvars, dvars, files_found, files_converted, log, landed,
                   root_calls, label_file, call, paths,
                   target_root, backup_enabled, dirs, files, di, fi, walk, floop>>

NextRun ==
    \/ Scan
    \/ StartDir
    \/ StartFiles
    \/ EnterDir
    \/ LeaveRoot
    \/ SkipDirFile
    \/ ProcessDirFile
    \/ ProcessDirInplaceFile
    \/ SkipFile
    \/ ProcessFile
    \/ ProcessFileInplace
    \/ FilesDone
    \/ CleanEmptyDirs

SpecRun == InitRun /\ [][NextRun]_vars

\* ------------------------------------------------------------------------
\* __create_dir and __convert_file called one by one
\* ------------------------------------------------------------------------

\* number of __convert_file calls
MaxConvertCalls == 2

ConvertSources == {Join(DirA, ImgX), ImgY}

\* the directories __create_dir is called for
NewDirs == {<<"t">>, DirABackup}

\* the targets for a source: the source itself, or its name in t
ConvertTargets(source) == {source, Join(<<"t">>, SplitTail(source))}

\* the backup paths for a source: none, the source, its name in t or in
\* a/backup
ConvertBackups(source) ==
    {<<>>, source, Join(<<"t">>, SplitTail(source)), Join(DirABackup, SplitTail(source))}

\* a WmFiles object that has converted nothing
InitConvert ==
    /\ LabelIdle
    /\ MetricsIdle
    /\ FontIdle
    /\ fs = InitialFs(-1)
    /\ paths = <<>>
    /\ target_root = <<>>
    /\ backup_enabled = TRUE
    /\ dirs = <<>>
    /\ files = <<>>
    /\ empty_dirs = <<>>
    /\ files_found = 0
    /\ files_converted = 0
    /\ log = <<>>
    /\ landed = {}
    /\ root_calls = <<>>
    /\ cleaned = <<>>
    /\ call = NoCall
    /\ label_file \in {"none", "wanted"}
    /\ rpc = "call"
    /\ di = 0
    /\ fi = 0
    /\ walk = NoWalk
    /\ floop = NoFilesLoop

\* self.__create_dir (path)
CallCreateDir ==
    /\ rpc = "call"
    /\ \E path \in NewDirs, mkdir_ok \in BOOLEAN :
          SetWorld(CreateDir(World, path, mkdir_ok).w)
    /\ UNCHANGED <<mvars, lvars, dvars, paths, target_root, backup_enabled, dirs, files,
                   rpc, di, fi, walk, floop>>

\* self.__convert_file (source, target, backup) for a file on disk
CallConvertFile ==
    /\ rpc = "call"
    /\ call.n < MaxConvertCalls
    /\ \E source \in ConvertSources, out \in RunOutcomes :
       \E target \in ConvertTargets(source), backup \in ConvertBackups(source) :
       \E r \in {ConvertFile(World, source, target, backup, out)} :
          /\ PathIsFile(fs, source)
          /\ SetWorld([r.w EXCEPT !.call = [n |-> call.n + 1, source |-> source,
                                            target |-> target, backup |-> backup,
                                            tool |-> out.tool]])
          /\ rpc' = IF r.aborted THEN "aborted" ELSE "call"
    /\ UNCHANGED <<mvars, lvars, dvars, paths, target_root, backup_enabled, dirs, files,
                   di, fi, walk, floop>>

NextConvert == CallCreateDir \/ CallConvertFile

SpecConvert == InitConvert /\ [][NextConvert]_vars

\* ------------------------------------------------------------------------
\* One WmImageMetrics instance as a machine: one accessor call per step
\* ------------------------------------------------------------------------

\* number of accessor calls made on the instance
MaxCalls == 4

\* answers of the EXIF orientation query: a key of ORIENTATIONS_MAP of
\* either kind, and an answer that is no key
OrientationAnswers == {"1", "6", ""}

\* answers of the '%w' and '%h' queries, -1 standing for no number
SizeAnswers == {-1, 0, 30, 1920}

\* whether the executable of the query is found (FileNotFoundError if not)
ToolOutcomes == {"ok", "missing"}

InitMetrics ==
    /\ metrics = MetricsNew
    /\ queries = NoQueries
    /\ ret = NoReturn
    /\ mpc = "calls"
    /\ n_calls = 0
    /\ LabelIdle
    /\ RunIdle
    /\ FontIdle

\* the state after an accessor call with outcome r; a call that needs a
\* query and finds no executable raises, and the run is aborted
Returned(name, r, tool) ==
    IF r.q # queries /\ tool = "missing"
    THEN /\ mpc' = "aborted"
         /\ metrics' = IF name = "date" THEN [metrics EXCEPT !.date_loaded = TRUE]
                       ELSE metrics
         /\ UNCHANGED <<queries, ret>>
    ELSE /\ metrics' = r.m
         /\ queries' = r.q
         /\ ret' = [name |-> name, value |-> r.ret, queried |-> r.q # queries]
         /\ mpc' = mpc

\* image.orientation ()
CallOrientation ==
    /\ mpc = "calls" /\ n_calls < MaxCalls
    /\ \E ans \in OrientationAnswers, tool \in ToolOutcomes :
          Returned("orientation", MetricsOrientation(metrics, queries, ans), tool)
    /\ n_calls' = n_calls + 1
    /\ UNCHANGED <<lvars, dvars, rvars, fvars>>

\* image.width ()
CallWidth ==
    /\ mpc = "calls" /\ n_calls < MaxCalls
    /\ \E o_ans \in OrientationAnswers, answer \in SizeAnswers, tool \in ToolOutcomes :
          Returned("width", MetricsSize(metrics, queries, TRUE, o_ans, answer), tool)
    /\ n_calls' = n_calls + 1
    /\ UNCHANGED <<lvars, dvars, rvars, fvars>>

\* image.height ()
CallHeight ==
    /\ mpc = "calls" /\ n_calls < MaxCalls
    /\ \E o_ans \in OrientationAnswers, answer \in SizeAnswers, tool \in ToolOutcomes :
          Returned("height", MetricsSize(metrics, queries, FALSE, o_ans, answer), tool)
    /\ n_calls' = n_calls + 1
    /\ UNCHANGED <<lvars, dvars, rvars, fvars>>

\* image.year (), month (), day (), hour (), minute (), sec ()
CallDateField ==
    /\ mpc = "calls" /\ n_calls < MaxCalls
    /\ \E n \in 1..6, exif \in ExifAnswers, tool \in ToolOutcomes :
          Returned("date", MetricsField(MetricsDate(metrics, queries, exif), n), tool)
    /\ n_calls' = n_calls + 1
    /\ UNCHANGED <<lvars, dvars, rvars, fvars>>

NextMetrics == CallOrientation \/ CallWidth \/ CallHeight \/ CallDateField

SpecMetrics == InitMetrics /\ [][NextMetrics]_vars

\* ------------------------------------------------------------------------
\* main and the label sizes as a machine
\* ------------------------------------------------------------------------

\* a label of LABEL_MAX_SIZE + 1 characters
OverlongTemplate == [k \in 1..(LABEL_MAX_SIZE + 1) |-> "a"]

\* args.label: a label main rejects, and one whose text for a long file
\* name is ManyNames * LongestName characters
SizeTemplates == {OverlongTemplate, NameGroup(ManyNames)}

\* a file with the longest name and one with a short name
SizeImages ==
    { LabelImage([k \in 1..LongestName |-> "a"], <<1920, 1440>>),
      LabelImage(<<"a", "a">>, <<1920, 1440>>) }

\* main after parse_args and set_target
InitLabelSize ==
    /\ template \in SizeTemplates
    /\ parse = TemplateNew
    /\ image = NoImage
    /\ label_text = <<>>
    /\ lpc = "main"
    /\ wtext = NoLabelText
    /\ tmp_disk = <<>>
    /\ annotate = NoAnnotation
    /\ last_io = NoIo
    /\ cur_dir = <<>>
    /\ n_images = 0
    /\ tmp_hist = NoTempFiles
    /\ RunIdle
    /\ MetricsIdle
    /\ FontIdle

\* main: the check of len (args.label), then WmLabel (args.label, ...)
MainLabel ==
    /\ lpc = "main"
    /\ lpc' = IF TemplateTooLong(template) THEN "rejected" ELSE "ready"
    /\ UNCHANGED <<template, parse, image, label_text, dvars, rvars, mvars>>

\* __convert_file for a file with a long or a short name
SizedTextCall == LabelTextCallOn(SizeImages)

NextLabelSize == MainLabel \/ SizedTextCall \/ LabelDelete

SpecLabelSize == InitLabelSize /\ [][NextLabelSize]_vars

\* ------------------------------------------------------------------------
\* The font fitter of one WmLabel as a machine
\* ------------------------------------------------------------------------

\* answers of the '%w' and '%h' queries: no number, 0, and sides around
\* the font sizes 16, 26 and 40
FontSides == {-1, 0, 30, 767, 768, 1247, 1248, 1900, 1919, 1920, 4000}

FontImages ==
    { [file_name |-> <<"a">>, exif |-> <<ExifEmpty, ExifEmpty, ExifEmpty>>,
       orientation |-> o, im_w |-> sw, im_h |-> sh] :
        o \in {"1", "6"}, sw \in FontSides, sh \in FontSides }

\* WmLabel (template, alignment) and set_image (image) for a first image
InitFont ==
    /\ image \in FontImages
    /\ font = FontNew
    /\ font_hist = NoFit
    /\ resize_cmd = <<>>
    /\ lpc = "font"
    /\ template = <<>>
    /\ parse = TemplateNew
    /\ label_text = <<>>
    /\ wtext = NoLabelText
    /\ tmp_disk = <<>>
    /\ annotate = NoAnnotation
    /\ last_io = NoIo
    /\ cur_dir = <<>>
    /\ n_images = 0
    /\ tmp_hist = NoTempFiles
    /\ RunIdle
    /\ MetricsIdle

\* WmLabel.set_image (image) for the next image
SetImage ==
    /\ lpc = "font"
    /\ \E img \in FontImages : image' = img
    /\ font' = FontNew
    /\ font_hist' = IF font.font_size # 0
                    THEN [max_side |-> MaxSide(image), font_size |-> font.font_size]
                    ELSE font_hist
    /\ UNCHANGED <<template, parse, label_text, lpc, dvars, rvars,
                   metrics, queries, ret, mpc, n_calls, resize_cmd>>

\* WmLabel.font_size, exact_font_size or stroke_width is read
GetFontSize ==
    /\ lpc = "font"
    /\ font' = CalcFontSize(font, image)
    /\ UNCHANGED <<lvars, dvars, rvars, metrics, queries, ret, mpc, n_calls, font_hist,
                   resize_cmd>>

NextFont == SetImage \/ GetFontSize

SpecFont == InitFont /\ [][NextFont]_vars

\* ------------------------------------------------------------------------
\* Claims about the parser and the composer
\* ------------------------------------------------------------------------

\* the index of the span that starts the group span k belongs to, 0 if none
GroupStartOf(spans, k) ==
    LET starts == { s \in 1..k : /\ spans[s].group_start
                                 /\ \A j \in s..(k - 1) : ~spans[j].group_end }
    IN  IF starts = {} THEN 0 ELSE CHOOSE s \in starts : \A j \in starts : j <= s

\* the index of the span that ends the group starting at span s
GroupEndOf(spans, s) ==
    CHOOSE e \in s..Len(spans) :
        spans[e].group_end /\ \A j \in s..(e - 1) : ~spans[j].group_end

\* some span of the group of span k resolves to the empty string
GroupHasEmpty(spans, img, k) ==
    LET s == GroupStartOf(spans, k)
    IN  s # 0 /\ \E j \in s..GroupEndOf(spans, s) : SpanValue(spans[j], img) = <<>>

\* what span k contributes to the label under the all-or-nothing rule
Contribution(spans, img, k) ==
    IF GroupHasEmpty(spans, img, k) THEN <<>> ELSE SpanValue(spans[k], img)

\* C1: a bracket group with a span that resolves to the empty string
\* contributes nothing to the composed text, every other group contributes
\* the values of its spans in order, and a span outside any group is
\* appended unchanged.
C1_AllOrNothingGroup ==
    lpc = "composed" =>
        label_text = Concat([k \in 1..Len(parse.spans) |->
                                Contribution(parse.spans, image, k)])

\* a composed label with a suppressed group that holds a non-empty span
C1_Witness ==
    /\ lpc = "composed"
    /\ \E k \in 1..Len(parse.spans) :
          /\ GroupHasEmpty(parse.spans, image, k)
          /\ SpanValue(parse.spans[k], image) # <<>>
    /\ \E k \in 1..Len(parse.spans) : GroupStartOf(parse.spans, k) = 0

RECURSIVE EscapeStartsFrom(_, _)
\* the indices at which an occurrence of "[[" or "]]" starts, reading the
\* template from index j on and pairing brackets from the left
EscapeStartsFrom(t, j) ==
    IF j >= Len(t) THEN {}
    ELSE IF StartsWithEscape(SliceFrom(t, j))
         THEN {j} \cup EscapeStartsFrom(t, j + 2)
         ELSE EscapeStartsFrom(t, j + 1)

\* C2: an occurrence of "[[" or "]]" never changes the bracket nesting depth
\* of the parser, at whatever depth it occurs, and decodes to one literal
\* bracket of the pending text when it is read.
C2_EscapeKeepsDepth ==
    [][ (/\ lpc = "parse" /\ parse.pc = "loop"
         /\ parse.i \in EscapeStartsFrom(template, 0))
        => /\ parse'.brackets = parse.brackets
           /\ parse'.i = parse.i + 2 ]_vars

\* ------------------------------------------------------------------------
\* Label delivery (SpecLabel)
\* ------------------------------------------------------------------------

\* the composed text fits on one line of the image and every character of
\* it is in 0x20..0x7E
SinglePrintableLine(text, img) ==
    Len(SplitLines(text, LineWidth(img))) = 1 /\ AllPrintableAscii(text)

\* C9: whenever a non-empty composed text was delivered and no write of the
\* label file failed, the -annotate argument is the text itself exactly when
\* the text is a single line of characters 0x20..0x7E, and it is the
\* reference to the label file whenever the text holds a line break, a
\* control character or a non-ASCII character.
C9_InlineIffPrintableLine ==
    (lpc = "delivered" /\ label_text # <<>> /\ last_io.wrote # "failed") =>
        /\ annotate.kind = "inline" <=> SinglePrintableLine(label_text, image)
        /\ ~AllPrintableAscii(label_text) => annotate.kind = "file"

\* C10: whenever the write of the label file failed (write error, or no free
\* name for the file), the -annotate argument of that image is empty.
C10_FailsClosed ==
    (lpc = "delivered" /\ last_io.wrote = "failed") => annotate.kind = "none"

\* ------------------------------------------------------------------------
\* Backups, outputs and empty directories (SpecRun)
\* ------------------------------------------------------------------------

\* the __convert_file calls of the run so far
Calls == 1..Len(log)

\* the call moved the original to its backup path and the conversion of the
\* backup succeeded
BackedUpAndConverted(i) == log[i].moved /\ log[i].exit = "ok"

\* C3: get_backup_path never returns a path that exists on disk when it is
\* called; when the plain name and every numbered name are taken it
\* returns no usable path.  Every backup path handed to __convert_file was
\* free when get_backup_path returned it.
C3_BackupPathIsFree ==
    \A i \in Calls : ~log[i].taken

C5_NoOutputWrittenTwice ==
    target_root # <<>> =>
        \A i, j \in Calls :
            (i < j /\ log[i].exit = "ok" /\ log[j].exit = "ok"
                   /\ log[i].source # log[j].source) =>
                NormPath(log[i].target) # NormPath(log[j].target)

\* the directories of the file system before the run
InitialDirs == BaseDirs \cup {DirABackup}

\* C6: in every state of a run empty_dirs holds no directory with a landed
\* file (a converted output or a retained backup) in it or below it.
C6_EmptyDirsHoldNoLandedFile ==
    \A i \in 1..Len(empty_dirs) : \A p \in landed :
        NormPath(empty_dirs[i]) \notin UpKeys(ParentKey(p))

\* a file has landed two levels below directories the run created, while
\* another directory the run created is still listed as empty
C6_Witness ==
    /\ empty_dirs # <<>>
    /\ \E p \in landed :
          /\ ParentKey(p) \notin InitialDirs
          /\ ParentKey(ParentKey(p)) \notin InitialDirs

\* the step is a __convert_file call whose conversion failed after the
\* original had been moved to its backup path
FailedAfterBackup ==
    /\ Len(log') = Len(log) + 1
    /\ log'[Len(log')].moved
    /\ log'[Len(log')].exit = "failed"

\* every directory listed in empty_dirs before the step is listed after it
NothingLeftEmptyDirs ==
    \A i \in 1..Len(empty_dirs) : \E j \in 1..Len(empty_dirs') :
        empty_dirs'[j] = empty_dirs[i]

\* the original is back at the source path and the backup path is free
MovedBack(e) ==
    /\ PathIsFile(fs', e.source)
    /\ fs'.files[NormPath(e.source)] = e.content
    /\ ~PathExists(fs', e.backup)

C7_Step ==
    FailedAfterBackup =>
        /\ files_converted' = files_converted
        /\ rpc' = rpc
        /\ log'[Len(log')].reverted \in {"ok", "failed"}
        /\ log'[Len(log')].reverted = "ok" =>
              MovedBack(log'[Len(log')]) /\ NothingLeftEmptyDirs
        /\ log'[Len(log')].reverted = "failed" =>
              \A j \in 1..Len(empty_dirs') :
                  empty_dirs'[j] \notin FullDirs(log'[Len(log')].backup)

\* C7: when the conversion fails for a file whose original was moved to
\* its backup path, the file is moved back to the source path,
\* files_converted is unchanged and the run goes on; only when the move
\* back fails are the backup's directory and its ancestors taken out of
\* empty_dirs.
C7_FailedConversionIsReverted == [][C7_Step]_vars

\* a failed conversion was reverted and a later file was converted
C7_Witness ==
    \E i, j \in Calls :
        /\ i < j
        /\ log[i].moved /\ log[i].exit = "failed" /\ log[i].reverted = "ok"
        /\ log[j].exit = "ok"

\* the scan of WmFiles.convert is done
ScanDone == rpc # "start"

\* src is one of the sorted list of sources
Listed(list, src) == \E k \in 1..Len(list) : list[k] = src

\* src names an entry of the directory root: root, a separator and a name
\* without separator
EntryOf(root, src) ==
    /\ Len(src) > Len(root) + 1
    /\ SubSeq(src, 1, Len(root)) = root
    /\ src[Len(root) + 1] = Sep
    /\ \A k \in (Len(root) + 2)..Len(src) : src[k] # Sep

\* src lies in the destination root: it names an entry of it, or a name of
\* the current directory when the destination root is "."
InDestination(src) ==
    \/ EntryOf(target_root, src)
    \/ target_root = <<".">> /\ \A k \in 1..Len(src) : src[k] # Sep

RootCalls == 1..Len(root_calls)

LeftOver == tmp_hist.written \cap DOMAIN tmp_disk

DateValue(n) == IF metrics.date_error THEN <<>> ELSE metrics.date[n]

\* C12: for one WmImageMetrics instance and any sequence of accessor
\* calls, at most one query is issued for the width, one for the height,
\* one for the orientation and one pass over at most three tags for the
\* date; a call after a failed fetch returns the unavailable value
\* without a new query; the six date fields are all empty or all
\* non-empty.
C12_FetchedAtMostOnce ==
    /\ queries.width <= 1 /\ queries.height <= 1 /\ queries.orientation <= 1
    /\ queries.date <= 1 /\ queries.tags <= 3
    /\ (ret.name = "width" /\ "width" \in queries.failed) => ret.value = 0
    /\ (ret.name = "height" /\ "height" \in queries.failed) => ret.value = 0
    /\ (ret.name = "date" /\ "date" \in queries.failed) => ret.value = <<>>
    /\ (ret.name = "orientation" /\ "orientation" \in queries.failed) =>
          ret.value = ORIENTATION_NONE
    /\ \/ \A n \in 1..6 : DateValue(n) = <<>>
       \/ \A n \in 1..6 : DateValue(n) # <<>>

\* the fetches of the width and of the date have failed, and a later call
\* of width () returned 0 without a query
C12_Witness ==
    /\ {"width", "date"} \subseteq queries.failed
    /\ ret.name = "width" /\ ~ret.queried /\ ret.value = 0

\* ------------------------------------------------------------------------
\* The fitted font (SpecFont)
\* ------------------------------------------------------------------------

\* the font of the current image is fitted
FontFitted == font.font_size # 0

\* C14: the font size never decreases when the effective max side
\* min (max (width, height), PHOTO_MAX_SIDE) grows: of two images fitted one
\* after the other, the one with the larger side has no smaller font; the
\* font size is LABEL_FONT_SIZE when the side reaches
\* LABEL_FONT_SIZE_PHOTO_SIDE and never above it, and it is never below 16,
\* whatever the width and the height are, 0 included
C14_FontSizeMonotone ==
    FontFitted =>
        /\ font.font_size >= 16
        /\ font.font_size <= LABEL_FONT_SIZE
        /\ MaxSide(image) >= LABEL_FONT_SIZE_PHOTO_SIDE => font.font_size = LABEL_FONT_SIZE
        /\ font_hist # NoFit =>
              /\ font_hist.max_side <= MaxSide(image) => font_hist.font_size <= font.font_size
              /\ font_hist.max_side >= MaxSide(image) => font_hist.font_size >= font.font_size

\* an image whose width and height are 0 is fitted after a 1920 one
C14_Witness ==
    /\ FontFitted
    /\ Width(image) = 0 /\ Height(image) = 0
    /\ font.font_size = 16
    /\ font_hist.max_side = LABEL_FONT_SIZE_PHOTO_SIDE
    /\ font_hist.font_size = LABEL_FONT_SIZE

\* the stroke width that goes with a font size
StrokeOf(size) == IF size < 26 THEN 1 ELSE 2

\* the font fields for an exact font size e on a side that is not
\* LABEL_FONT_SIZE_PHOTO_SIDE
FieldsFor(e) ==
    [font_size |-> Max(e, 16), exact_font_size |-> e, stroke_width |-> StrokeOf(Max(e, 16))]

\* C15: for an effective max side that is not LABEL_FONT_SIZE_PHOTO_SIDE the
\* exact font size is LABEL_FONT_SIZE * side / LABEL_FONT_SIZE_PHOTO_SIDE
\* with the fraction cut off, the font size is the larger of it and 16, and
\* the stroke width is 1 for a font size below 26 and 2 otherwise; for a
\* side of LABEL_FONT_SIZE_PHOTO_SIDE the font size is LABEL_FONT_SIZE and
\* the stroke width is 2
C15_FontFieldsTruncated ==
    FontFitted =>
        IF MaxSide(image) # LABEL_FONT_SIZE_PHOTO_SIDE
        THEN font = FieldsFor((LABEL_FONT_SIZE * MaxSide(image)) \div LABEL_FONT_SIZE_PHOTO_SIDE)
        ELSE font.font_size = LABEL_FONT_SIZE /\ font.stroke_width = 2

\* a 1900 x 767 image is fitted: 40 * 1900 / 1920 is 39.58
C15_Witness ==
    /\ FontFitted
    /\ MaxSide(image) = 1900
    /\ font.exact_font_size = 39

\* C15 with the quotient rounded to the nearest integer
C15_FontFieldsRounded ==
    FontFitted =>
        IF MaxSide(image) # LABEL_FONT_SIZE_PHOTO_SIDE
        THEN font = FieldsFor(RoundNearest(LABEL_FONT_SIZE * MaxSide(image),
                                           LABEL_FONT_SIZE_PHOTO_SIDE))
        ELSE font.font_size = LABEL_FONT_SIZE /\ font.stroke_width = 2

\* ------------------------------------------------------------------------
\* Labels over the size limits (SpecLabelSize)
\* ------------------------------------------------------------------------

\* the text composed for the current image is over the limit of WmLabel.text
ComposedTooLong == Len(label_text) > LABEL_MAX_SIZE * 2

\* C16: a label over the size limit is never handed to the conversion.  A
\* text composed for an image that is longer than the limit of WmLabel.text
\* (LABEL_MAX_SIZE * 2) gives no annotation and writes no label file, the
\* call does not raise and the file goes on to its conversion; whenever an
\* annotation is returned its text is within the limit.  With a template
\* longer than LABEL_MAX_SIZE on the command line main returns before
\* WmLabel is made and before any file is handled.
C16_LongLabelDropped ==
    /\ (n_images > 0 /\ lpc # "ended" /\ ComposedTooLong) =>
          /\ annotate = NoAnnotation
          /\ last_io = NoIo
          /\ lpc \in {"delivered", "aborted"}
    /\ annotate # NoAnnotation => ~ComposedTooLong
    /\ Len(template) > LABEL_MAX_SIZE =>
          /\ lpc \in {"main", "rejected"}
          /\ n_images = 0
          /\ wtext = NoLabelText
          /\ tmp_hist = NoTempFiles

\* the second file has a name whose label is too long, after a first file
\* whose label was written to a label file; the run goes on
C16_Witness ==
    /\ n_images = 2
    /\ ComposedTooLong
    /\ lpc = "delivered"
    /\ annotate = NoAnnotation
    /\ tmp_hist.written # {}

\* ------------------------------------------------------------------------
\* The cleanup of the empty directories (SpecRun)
\* ------------------------------------------------------------------------

\* the step is __clean_empty_dirs
CleanupStep == rpc = "clean" /\ rpc' = "done"

\* the directory named a lies below the directory named b
Below(a, b) == NormPath(a) # NormPath(b) /\ NormPath(b) \in UpKeys(NormPath(a))

\* the entries of the old empty_dirs are the entries handled
AllHandled ==
    /\ Len(cleaned') = Len(empty_dirs)
    /\ \A i \in 1..Len(empty_dirs) : \E j \in 1..Len(cleaned') :
          cleaned'[j].dir = empty_dirs[i]

\* a directory is handled before the directories above it
DeepestFirst ==
    \A i, j \in 1..Len(cleaned') :
        Below(cleaned'[j].dir, cleaned'[i].dir) => j < i

\* the directories with a file below them stay, and no file is touched
FullDirsStay ==
    /\ fs'.files = fs.files
    /\ \A i \in 1..Len(empty_dirs) :
          HasFilesBelow(fs, empty_dirs[i]) =>
              /\ PathIsDir(fs', empty_dirs[i])
              /\ \E j \in 1..Len(cleaned') :
                    cleaned'[j].dir = empty_dirs[i] /\ cleaned'[j].has_files

\* the rmtree of the directory failed
RmTreeFailed(dir) ==
    \E j \in 1..Len(cleaned') : cleaned'[j].dir = dir /\ cleaned'[j].failed

\* C17: __clean_empty_dirs handles every directory of empty_dirs, a
\* directory before the directories above it; a directory with no file
\* below it is gone afterwards unless its rmtree failed (the error is
\* ignored), a directory with a file below it stays; empty_dirs is empty
\* afterwards
C17_CleanupRemovesEmptyDirs ==
    [][CleanupStep =>
          /\ AllHandled
          /\ DeepestFirst
          /\ FullDirsStay
          /\ \A i \in 1..Len(empty_dirs) :
                (~HasFilesBelow(fs, empty_dirs[i]) /\ ~RmTreeFailed(empty_dirs[i])) =>
                    ~PathExists(fs', empty_dirs[i])
          /\ empty_dirs' = <<>>]_vars

\* the cleanup has handled a directory before the one above it, has
\* removed a directory with no file below it, and has left a directory with
\* a file below it
C17_Witness ==
    /\ rpc = "done"
    /\ \E i, j \in 1..Len(cleaned) : i < j /\ Below(cleaned[i].dir, cleaned[j].dir)
    /\ \E i \in 1..Len(cleaned) :
          ~cleaned[i].has_files /\ ~cleaned[i].failed /\ ~PathExists(fs, cleaned[i].dir)
    /\ \E i \in 1..Len(cleaned) : cleaned[i].has_files /\ PathIsDir(fs, cleaned[i].dir)

\* C17 with every directory with no file below it gone afterwards
C17_EveryEmptyDirRemoved ==
    [][CleanupStep =>
          /\ AllHandled
          /\ DeepestFirst
          /\ FullDirsStay
          /\ \A i \in 1..Len(empty_dirs) :
                ~HasFilesBelow(fs, empty_dirs[i]) => ~PathExists(fs', empty_dirs[i])
          /\ empty_dirs' = <<>>]_vars

\* ------------------------------------------------------------------------
\* The order of a run (SpecRun)
\* ------------------------------------------------------------------------

\* the phase of the run: scanning, the directory sources, the file
\* sources, the cleanup, the end
PhaseOf(pc) ==
    CASE pc = "start" -> 0
      [] pc \in {"dirs", "walk"} -> 1
      [] pc = "files" -> 2
      [] pc = "clean" -> 3
      [] OTHER -> 4

\* the list is in ascending order
Ascending(list) == \A i, j \in 1..Len(list) : i < j => ~StrLess(list[j], list[i])

\* the step is a conversion attempt: __convert_file got as far as the
\* backup or the conversion
Attempt == log' # log

\* the entry of the attempt
Attempted == log'[Len(log')]

\* the attempt is over when the step is: the entry is the one new entry of
\* the log, it tells how the conversion ended unless the move to the backup
\* failed, and files_converted counts it if it succeeded
AttemptComplete ==
    /\ log' = Append(log, Attempted)
    /\ Attempted.exit = "none" => ~Attempted.moved /\ Attempted.backup # <<>>
    /\ files_converted' = files_converted + (IF Attempted.exit = "ok" THEN 1 ELSE 0)

\* C18: a run scans, converts and cleans up in this order.  The sorted
\* directory sources are walked one after the other, then the sorted file
\* sources are converted one after the other; every conversion attempt is
\* complete within its step, for a file below the directory source being
\* walked or for the next file source; directories are removed by the
\* cleanup only, which comes after the last attempt and touches no file.
C18_RunOrder ==
    [][/\ PhaseOf(rpc) <= PhaseOf(rpc')
       /\ rpc # "start" => Ascending(dirs) /\ Ascending(files)
       /\ rpc # "start" => dirs' = dirs /\ files' = files
       /\ di' \in {di, di + 1} \/ rpc = "start"
       /\ fi' \in {fi, fi + 1} \/ rpc = "dirs"
       /\ Attempt =>
             /\ AttemptComplete
             /\ rpc \in {"walk", "files"}
             /\ rpc = "walk" => di' = di /\ Below(Attempted.source, dirs[di])
             /\ rpc = "files" => fi' = fi + 1 /\ Attempted.source = files[fi]
       /\ ~Attempt => files_converted' = files_converted
       /\ fs.dirs \ fs'.dirs # {} => rpc = "clean"
       /\ rpc \in {"start", "clean", "done", "aborted"} =>
             fs'.files = fs.files /\ fs'.dirs \subseteq fs.dirs /\ log' = log
      ]_vars

\* the run has converted a file of a directory source, then a file source,
\* and has then removed a directory
C18_Witness ==
    /\ rpc = "done"
    /\ \E i, j \in 1..Len(log) :
          /\ i < j
          /\ \E k \in 1..Len(dirs) : Below(log[i].source, dirs[k])
          /\ \E k \in 1..Len(files) : log[j].source = files[k]
          /\ log[i].exit = "ok" /\ log[j].exit = "ok"
    /\ \E i \in 1..Len(cleaned) : ~cleaned[i].has_files /\ ~PathExists(fs, cleaned[i].dir)

\* ------------------------------------------------------------------------
\* __convert_file with the target at the backup path (SpecConvert)
\* ------------------------------------------------------------------------

\* the step is a __convert_file call whose target is its backup path
SameTargetCall == call'.n = call.n + 1 /\ call'.target = call'.backup

\* C19: a __convert_file call whose target path is its backup path does
\* nothing: it returns before the first metadata query (a missing query
\* executable does not abort the run), moves and converts no file, makes no
\* label file, and leaves files_converted, empty_dirs and the file system
\* as they were
C19_SameTargetIsNoop ==
    [][SameTargetCall =>
          /\ rpc' = "call"
          /\ fs' = fs
          /\ empty_dirs' = empty_dirs
          /\ files_converted' = files_converted
          /\ log' = log
          /\ landed' = landed
          /\ label_file' = label_file]_vars

\* __convert_file was called with the target at the backup path, in a
\* directory the run had created, while the query executable is missing and
\* a label file is wanted
C19_Witness ==
    /\ call.n > 0
    /\ call.target = call.backup
    /\ call.target # call.source
    /\ call.tool = "no_identify"
    /\ rpc = "call"
    /\ label_file = "wanted"
    /\ \E i \in 1..Len(empty_dirs) : empty_dirs[i] = SplitHead(call.target)
    /\ PathIsFile(fs, call.source)
    /\ ~PathExists(fs, call.target)

\* ------------------------------------------------------------------------
\* Directories that cannot be created (SpecRun)
\* ------------------------------------------------------------------------

\* the step takes a file of a supported type
FileTaken == files_found' = files_found + 1

\* the step takes a file whose target directory could not be created: the
\* directory of the walk, or the destination itself for a file source
TargetDirFails ==
    /\ FileTaken
    /\ target_root # <<>>
    /\ \/ rpc = "walk" /\ ~PathIsDir(fs', walk'.target_dir)
       \/ rpc = "files" /\ ~PathIsDir(fs', target_root)

\* the step takes a file in place whose backup directory could not be
\* created, now or for a file before it
BackupDirFails ==
    /\ FileTaken
    /\ target_root = <<>>
    /\ backup_enabled
    /\ \/ rpc = "walk" /\ walk'.backup_dir = <<>>
       \/ rpc = "files" /\ floop'.backup_root = <<>>

\* the file of the step is neither moved nor converted
FileSkipped ==
    /\ fs' = fs
    /\ log' = log
    /\ files_converted' = files_converted

\* the rest of the directory source, or every file source, is given up and
\* the run goes on with the next directory source, the file sources or
\* the cleanup
RestGivenUp ==
    /\ rpc = "walk" => rpc' = "walk" /\ walk'.todo = {} /\ walk'.stack = <<>> /\ di' = di
    /\ rpc = "files" => rpc' = "clean"

\* the file of the step is converted in place with a backup path next to it
BackupNextToSource ==
    /\ Attempt
    /\ Attempted.target = Attempted.source
    /\ Attempted.backup # <<>>
    /\ SplitHead(Attempted.backup) = SplitHead(Attempted.source)
    /\ Attempted.backup = GetBackupPath(fs, Attempted.source, <<>>)

\* C20: when a target directory cannot be created the file is skipped,
\* neither moved nor converted, together with the rest of its directory
\* source (or with every file source when it is the destination that
\* cannot be created), and the run goes on.  When a backup directory
\* cannot be created the file is not skipped: it is converted in place with
\* its backup next to it, under the name get_backup_path gives without a
\* backup directory, unless the run is aborted by a missing executable.
C20_DirCreationFailure ==
    [][/\ TargetDirFails => FileSkipped /\ RestGivenUp
       /\ BackupDirFails => rpc' = "aborted" \/ BackupNextToSource
      ]_vars

\* the backup directory of a directory source could not be created, and its
\* file was converted with the original moved to a backup next to it
C20_Witness ==
    /\ rpc = "walk"
    /\ target_root = <<>> /\ backup_enabled
    /\ walk.backup_dir_error
    /\ log # <<>>
    /\ log[Len(log)].moved /\ log[Len(log)].exit = "ok"
    /\ SplitHead(log[Len(log)].backup) = SplitHead(log[Len(log)].source)
    /\ PathIsFile(fs, log[Len(log)].backup)
    /\ fs.files[NormPath(log[Len(log)].source)].gen = 1

\* C20 with the file skipped in either case
C20_FileSkipped ==
    [][/\ TargetDirFails => FileSkipped /\ RestGivenUp
       /\ BackupDirFails => FileSkipped
      ]_vars

\* ---------------------------------------------------------------------
\* C21: the label file and the destination directory
\* ---------------------------------------------------------------------

\* the label of the image just converted was delivered as a file reference
DeliveredAsFile ==
    lpc \in {"delivered", "aborted"} /\ annotate.kind = "file"

\* C21: whenever a label is delivered as a file reference for an image, the
\* referenced label file lies in the destination directory of that image
C21_LabelFileInTargetDir ==
    DeliveredAsFile => annotate.path.root = cur_dir

\* ---------------------------------------------------------------------
\* C22: the static flag and the reuse of the label text
\* ---------------------------------------------------------------------

\* length of the longest enumerated template of the reuse machine
MaxReuseLen == 4

ReuseTemplates == StringsUpTo(ParseChars, MaxReuseLen) \cup HelpTemplates

InitReuse ==
    /\ template \in ReuseTemplates
    /\ parse = TemplateNew
    /\ image = NoImage
    /\ label_text = <<>>
    /\ lpc = "ready"
    /\ wtext = NoLabelText
    /\ tmp_disk = <<>>
    /\ annotate = NoAnnotation
    /\ last_io = NoIo
    /\ cur_dir = <<>>
    /\ n_images = 0
    /\ tmp_hist = NoTempFiles
    /\ RunIdle
    /\ MetricsIdle
    /\ FontIdle

\* __convert_file for an image of any of the EXIF answers
ReuseTextCall == LabelTextCallOn(ParseImages)

NextReuse == ReuseTextCall \/ LabelDelete

SpecReuse == InitReuse /\ [][NextReuse]_vars

\* the tag spans of the parsed template
TagSpans == { k \in 1..Len(parse.spans) : parse.spans[k].kind = "tag" }

\* WmLabel.text has returned for the current image
TextReturned == n_images > 0 /\ lpc \in {"delivered", "aborted"}

\* C22: after a template is parsed its static flag is true if and only if
\* every tag span names a tag of LABEL_TAGS_STATIC, and the label text of a
\* template with a tag span is the text composed from the spans for the
\* current image, for every image
C22_StaticIffNoImageTag ==
    /\ parse.pc = "done" =>
          (parse.static <=>
              \A k \in TagSpans : parse.spans[k].text \in LABEL_TAGS_STATIC)
    /\ TextReturned /\ TagSpans # {} =>
          /\ label_text = Compose(parse.spans, image)
          /\ annotate.kind = "inline" => annotate.text = label_text

\* the second image of a tagged template has no date: its text is composed
\* anew (empty) while the WmLabelText still holds the text of the first
C22_Witness ==
    /\ TextReturned /\ TagSpans # {} /\ n_images = 2
    /\ wtext.made /\ wtext.text # <<>> /\ label_text = <<>>

\* ---------------------------------------------------------------------
\* C23: obtaining the spans twice
\* ---------------------------------------------------------------------

\* what a caller of __iter__ sees of a template state: the span kinds,
\* texts and group flags in order, and the static flag
SpansSeen(p) == [spans |-> p.spans, static |-> p.static]

\* C23: template parsing is idempotent: once the spans of a template were
\* obtained, obtaining them again from the same WmLabelTemplate leaves the
\* same sequence of span kinds, texts and group flags and the same static
\* flag, and they equal those of a new instance built from the same string
C23_ParseIdempotent ==
    /\ [](parse.pc = "done" => SpansSeen(parse) = SpansSeen(GetSpans(template)))
    /\ [][parse.pc = "done" => SpansSeen(parse') = SpansSeen(parse)]_vars

\* the spans of a tagged template were obtained for a second image
C23_Witness ==
    /\ n_images = 2 /\ TextReturned /\ parse.pc = "done"
    /\ ~parse.static /\ Len(parse.spans) > 1

\* ---------------------------------------------------------------------
\* C24: in-place conversion with and without backups
\* ---------------------------------------------------------------------

\* one iteration of the loop of __process_files_inplace for the file path of
\* a supported type, with self.backup_enabled = enabled: the world, the
\* locals and the backup path handed to __convert_file
InplaceFile(w, lp, path, enabled, out) ==
    LET s == IF enabled THEN FilesRoot(Found(w), lp, path, out.mkdir_ok)
             ELSE [w |-> Found(w), lp |-> lp]
        backup == IF enabled THEN GetBackupPath(s.w.fs, path, s.lp.backup_root)
                  ELSE <<>>
        r == ConvertFile(s.w, path, path, backup, out)
    IN  [w |-> r.w, lp |-> s.lp, aborted |-> r.aborted, backup |-> backup]

\* the worlds e (backups enabled) and d (backups disabled) after the file
\* source was handled differ by the backup artifact only: the counters and
\* the file at the source path are the same, every file and directory of d
\* is in e as it is in d, and e has in addition the backup and the
\* directories made for it
SameButBackup(e, d, source, backup) ==
    /\ e.files_found = d.files_found
    /\ e.files_converted = d.files_converted
    /\ PathIsFile(e.fs, source) /\ PathIsFile(d.fs, source)
    /\ e.fs.files[NormPath(source)] = d.fs.files[NormPath(source)]
    /\ \A k \in DOMAIN d.fs.files :
          k \in DOMAIN e.fs.files /\ e.fs.files[k] = d.fs.files[k]
    /\ DOMAIN e.fs.files \ DOMAIN d.fs.files = {NormPath(backup)}
    /\ d.fs.dirs \subseteq e.fs.dirs
    /\ e.fs.dirs \ d.fs.dirs \subseteq UpKeys(ParentKey(NormPath(backup)))

\* a step of __process_files_inplace with backups that converted its file
InplaceConverted ==
    /\ rpc = "files" /\ target_root = <<>> /\ backup_enabled /\ template = <<>>
    /\ fi' = fi + 1
    /\ files_converted' = files_converted + 1

\* the outcomes of the external operations under which the step was taken
OutcomesOfStep ==
    { out \in RunOutcomes :
        LET e == InplaceFile(World, floop, files[fi], TRUE, out)
        IN  e.w = World' /\ e.lp = floop' }

\* C24: for a file converted in place with no label template, the run with
\* backups and the run without behave identically but for the presence of
\* the backup artifact: under the same outcomes of the external operations
\* the same files are found and converted, the source path holds the same
\* converted file, and nothing else of the file system differs
C24_BackupOnlyAddsArtifact ==
    [][InplaceConverted =>
          /\ OutcomesOfStep # {}
          /\ \A out \in OutcomesOfStep :
                LET e == InplaceFile(World, floop, files[fi], TRUE, out)
                    d == InplaceFile(World, floop, files[fi], FALSE, out)
                IN  SameButBackup(e.w, d.w, files[fi], e.backup)]_vars

\* ---------------------------------------------------------------------
\* C25: the template [[text]]
\* ---------------------------------------------------------------------

\* the template is [[ + text + ]] with a text that holds no bracket
IsEscaped ==
    /\ Len(template) >= 4
    /\ StartsWith(template, <<"[","[">>)
    /\ SliceFrom(template, Len(template) - 2) = <<"]","]">>
    /\ \A k \in 3..(Len(template) - 2) : template[k] \notin {"[", "]"}

\* [ + text + ] for the template [[ + text + ]]
EscapedLiteral ==
    <<"[">> \o [k \in 1..(Len(template) - 4) |-> template[k + 2]] \o <<"]">>

\* C25: a template [[ + text + ]] parses to text spans only, without tag
\* span and group flags, and composes for every image to [ + text + ],
\* also when the text holds tag names
C25_EscapedBrackets ==
    IsEscaped /\ lpc \in {"compose", "composed"} =>
        /\ parse.spans = <<WmLabelSpanText(EscapedLiteral)>>
        /\ lpc = "composed" => label_text = EscapedLiteral

\* [[MM]] composed for an image with a date: the label is [MM]
C25_Witness ==
    /\ lpc = "composed"
    /\ template = <<"[","[","M","M","]","]">>
    /\ label_text = <<"[","M","M","]">>
    /\ image.exif[1] = GoodDate

\* ---------------------------------------------------------------------
\* The resize decision of __convert_file
\* ---------------------------------------------------------------------

\* a resize that always constrains the width
ResizeByWidth(img) ==
    IF Width(img) > PHOTO_MAX_SIDE \/ Height(img) > PHOTO_MAX_SIDE
    THEN <<"-resize", Append(Decimal(PHOTO_MAX_SIDE), "x")>>
    ELSE <<>>

\* __convert_file, step 1: resize_cmd for the WmImageMetrics img
ResizeCmd(img) ==
    IF Width(img) > PHOTO_MAX_SIDE \/ Height(img) > PHOTO_MAX_SIDE
    THEN IF Width(img) > Height(img)
         THEN <<"-resize", Append(Decimal(PHOTO_MAX_SIDE), "x")>>
         ELSE <<"-resize", <<"x">> \o Decimal(PHOTO_MAX_SIDE)>>
    ELSE <<>>

\* a WmFiles object before its first __convert_file
InitResize ==
    /\ image = NoImage
    /\ FontIdle
    /\ lpc = "resize"
    /\ template = <<>>
    /\ parse = TemplateNew
    /\ label_text = <<>>
    /\ wtext = NoLabelText
    /\ tmp_disk = <<>>
    /\ annotate = NoAnnotation
    /\ last_io = NoIo
    /\ cur_dir = <<>>
    /\ n_images = 0
    /\ tmp_hist = NoTempFiles
    /\ RunIdle
    /\ MetricsIdle

\* __convert_file up to step 1 for the next file: WmImageMetrics (source),
\* self.label.set_image (image) and the resize decision
ConvertResize ==
    /\ lpc \in {"resize", "resized"}
    /\ \E img \in FontImages :
          /\ image' = img
          /\ resize_cmd' = ResizeCmd(img)
    /\ font' = FontNew
    /\ lpc' = "resized"
    /\ UNCHANGED <<template, parse, label_text, dvars, rvars,
                   metrics, queries, ret, mpc, n_calls, font_hist>>

NextResize == ConvertResize

SpecResize == InitResize /\ [][NextResize]_vars

\* ---------------------------------------------------------------------
\* C26: the resize instruction
\* ---------------------------------------------------------------------

\* '<max>x': the width is constrained to PHOTO_MAX_SIDE
WidthTo1920 == <<"-resize", <<"1","9","2","0","x">>>>

\* 'x<max>': the height is constrained to PHOTO_MAX_SIDE
HeightTo1920 == <<"-resize", <<"x","1","9","2","0">>>>

\* C26: a resize instruction is issued if and only if the width or the
\* height exceeds PHOTO_MAX_SIDE; it constrains the width if the width
\* exceeds the height and the height otherwise, square images included, so
\* that the constrained edge is a long edge
C26_ResizeLongEdge ==
    lpc = "resized" =>
        /\ resize_cmd # <<>> <=> (Width(image) > 1920 \/ Height(image) > 1920)
        /\ resize_cmd # <<>> =>
              /\ resize_cmd = IF Width(image) > Height(image)
                              THEN WidthTo1920 ELSE HeightTo1920
              /\ resize_cmd = WidthTo1920 =>
                    Width(image) = Max(Width(image), Height(image))
              /\ resize_cmd = HeightTo1920 =>
                    Height(image) = Max(Width(image), Height(image))

\* a square image larger than the limit: the height is constrained
C26_Witness ==
    /\ lpc = "resized"
    /\ Width(image) = 4000 /\ Height(image) = 4000
    /\ resize_cmd = HeightTo1920

\* ---------------------------------------------------------------------
\* C27: a bracket that is never closed
\* ---------------------------------------------------------------------

\* __get_spans has ended inside a bracket region
Unclosed == parse.pc = "done" /\ parse.brackets > 0

\* the template before the bracket that opened the region (at index
\* tags_start - 1), parsed on its own
BeforeOpen == GetSpans(Slice(template, 0, parse.tags_start - 1))

\* the spans of q without the span made of the pending top-level text
SpansBeforePending(q) ==
    IF q.text_span = <<>> THEN q.spans ELSE SubSeq(q.spans, 1, Len(q.spans) - 1)

\* C27: for a template whose last depth-0 opening bracket is never closed
\* the parser ends without error, the characters from that bracket to the
\* end of the string are literal text, without tag span and group flags,
\* appended to the pending top-level text, and the spans produced before
\* the bracket are as they are without it
C27_UnclosedBracketIsText ==
    Unclosed =>
        /\ parse.tags_start >= 1 /\ template[parse.tags_start] = "["
        /\ BeforeOpen.brackets = 0
        /\ parse.spans =
              Append(SpansBeforePending(BeforeOpen),
                     WmLabelSpanText(BeforeOpen.text_span
                                        \o SliceFrom(template, parse.tags_start - 1)))
        /\ lpc = "composed" =>
              label_text = Compose(SpansBeforePending(BeforeOpen), image)
                              \o BeforeOpen.text_span
                              \o SliceFrom(template, parse.tags_start - 1)

\* [DD]a[M: a group, then the pending text a and the open region [M
C27_Witness ==
    /\ Unclosed /\ lpc = "composed"
    /\ template = <<"[","D","D","]","a","[","M">>
    /\ Len(parse.spans) = 2
    /\ parse.spans[2] = WmLabelSpanText(<<"a","[","M">>)
    /\ label_text = <<"2","0","a","[","M">>

\* ---------------------------------------------------------------------
\* C28: the group flags
\* ---------------------------------------------------------------------

\* the spans k..e of spans are a run: k carries the only group_start and e
\* the only group_end of them
IsRun(spans, k, e) ==
    /\ k <= e
    /\ \A j \in k..e :
          /\ spans[j].group_start <=> j = k
          /\ spans[j].group_end <=> j = e

\* the span j lies in the run k..e of spans
InRun(spans, j) ==
    \E k \in 1..j, e \in j..Len(spans) : IsRun(spans, k, e)

\* reading the spans in order the marks alternate, starting with a
\* group_start, each group_start being matched by a group_end on the same
\* or a later span before the next group_start; a span outside the runs is
\* a text span without flags
FlagsWellFormed(spans) ==
    \A j \in 1..Len(spans) :
        \/ InRun(spans, j)
        \/ /\ spans[j].kind = "text"
           /\ ~spans[j].group_start /\ ~spans[j].group_end

\* the step of __get_spans that reads the bracket closing a region
RegionClosed ==
    /\ lpc = "parse" /\ parse.pc = "loop"
    /\ parse.brackets = 1 /\ parse'.brackets = 0

\* the spans before __get_bracket_spans is called: those before, and the
\* pending top-level text
SpansAtOpen == AppendText(parse.spans, parse.text_span)

\* C28: in every parsed span sequence the group flags are well formed: the
\* marks alternate starting with group_start, every group_start has its
\* group_end on the same or a later span before the next group_start, the
\* spans of one bracket region form exactly one such run, and top-level
\* text spans outside a run carry neither flag
C28_GroupFlagsWellFormed ==
    /\ [](FlagsWellFormed(parse.spans))
    /\ [][RegionClosed =>
             /\ SubSeq(parse'.spans, 1, Len(SpansAtOpen)) = SpansAtOpen
             /\ Len(parse'.spans) > Len(SpansAtOpen) =>
                   IsRun(parse'.spans, Len(SpansAtOpen) + 1, Len(parse'.spans))]_vars

\* [Month YYYY, ][file_name] parsed: a run of four spans and a run of one
C28_Witness ==
    /\ parse.pc = "done" /\ Len(parse.spans) = 5
    /\ IsRun(parse.spans, 1, 4)
    /\ IsRun(parse.spans, 5, 5)

\* ---------------------------------------------------------------------
\* C29: the scan of a bracket region
\* ---------------------------------------------------------------------

\* the tags of the table whose name the string s goes on with at index p
\* (from 0)
TagsAt(s, p) ==
    { k \in 1..Len(LABEL_TAGS) :
        /\ p + Len(LABEL_TAGS[k].tag) <= Len(s)
        /\ \A j \in 1..Len(LABEL_TAGS[k].tag) : s[p + j] = LABEL_TAGS[k].tag[j] }

\* the first of them in table order
TagAt(s, p) == CHOOSE k \in TagsAt(s, p) : \A j \in TagsAt(s, p) : k <= j

\* a pair [[ or ]] stands at index p of s
PairAt(s, p) ==
    /\ p + 2 <= Len(s)
    /\ s[p + 1] = s[p + 2]
    /\ s[p + 1] \in {"[", "]"}

RECURSIVE ScanTokens(_, _)
\* the left-to-right scan of s from index p: a tag where a tag name goes
\* on, one character (or one pair of brackets as one bracket) elsewhere
ScanTokens(s, p) ==
    IF p >= Len(s) THEN <<>>
    ELSE IF TagsAt(s, p) # {}
    THEN <<[kind |-> "tag", text |-> LABEL_TAGS[TagAt(s, p)].tag]>>
            \o ScanTokens(s, p + Len(LABEL_TAGS[TagAt(s, p)].tag))
    ELSE <<[kind |-> "text", text |-> <<s[p + 1]>>]>>
            \o ScanTokens(s, IF PairAt(s, p) THEN p + 2 ELSE p + 1)

RECURSIVE JoinTexts(_)
\* the tokens with the neighbouring characters joined to one text
JoinTexts(tokens) ==
    IF Len(tokens) < 2 THEN tokens
    ELSE IF tokens[1].kind = "text" /\ tokens[2].kind = "text"
    THEN JoinTexts(<<[kind |-> "text", text |-> tokens[1].text \o tokens[2].text]>>
                      \o SubSeq(tokens, 3, Len(tokens)))
    ELSE <<tokens[1]>> \o JoinTexts(Tail(tokens))

\* the kinds and texts of the spans k..Len (spans)
KindsAndTexts(spans, k) ==
    [j \in 1..(Len(spans) - k + 1) |->
        [kind |-> spans[j + k - 1].kind, text |-> spans[j + k - 1].text]]

\* Month YYYY, ][file_name] of the help text
MonthAndName ==
    <<"[","M","o","n","t","h"," ","Y","Y","Y","Y",","," ","]",
      "[","f","i","l","e","_","n","a","m","e","]">>

\* C29: the spans of a bracket region are those of a left-to-right scan of
\* its content that emits a tag span where a tag name of the table is a
\* prefix of the rest and otherwise adds one character, or one pair of
\* brackets as one bracket, to the current text span; and
\* [Month YYYY, ][file_name] composes for HAPPY_SHOT of August 20 2020 to
\* August 2020, HAPPY_SHOT
C29_RegionScan ==
    /\ [][RegionClosed =>
             KindsAndTexts(parse'.spans, Len(SpansAtOpen) + 1)
                = JoinTexts(ScanTokens(Slice(template, parse.tags_start, parse.i), 0))]_vars
    /\ [](/\ lpc = "composed"
          /\ template = MonthAndName
          /\ image.exif[1] = GoodDate
          => label_text = <<"A","u","g","u","s","t"," ","2","0","2","0",","," ",
                            "H","A","P","P","Y","_","S","H","O","T">>)

\* the help template composed for the photo of August 20 2020
C29_Witness ==
    /\ lpc = "composed"
    /\ template = MonthAndName
    /\ image.exif[1] = GoodDate
    /\ image.file_name = <<"H","A","P","P","Y","_","S","H","O","T">>
    /\ Len(label_text) = 23

\* ---------------------------------------------------------------------
\* The label machine with a label file that other processes may change
\* ---------------------------------------------------------------------

\* what another process leaves in the label file
ForeignLines == { <<>>, << <<"x">> >> }

\* between two conversions another process truncates or overwrites the
\* label file
FileChanged ==
    /\ lpc = "delivered"
    /\ wtext.has_file /\ wtext.file_path \in DOMAIN tmp_disk
    /\ tmp_disk[wtext.file_path] \notin ForeignLines
    /\ \E c \in ForeignLines :
          tmp_disk' = [tmp_disk EXCEPT ![wtext.file_path] = c]
    /\ UNCHANGED <<lvars, wtext, annotate, last_io, cur_dir, n_images, tmp_hist,
                   rvars, mvars>>

NextLabelDisk == LabelTextCall \/ LabelDelete \/ FileChanged

SpecLabelDisk == InitLabel /\ [][NextLabelDisk]_vars

\* ---------------------------------------------------------------------
\* C30: WmLabelText.init with the lines of the previous call
\* ---------------------------------------------------------------------

\* the text WmLabel.text hands to __split_lines in the step
CalledText ==
    IF ReusesText(parse, wtext) THEN wtext.text
    ELSE Compose(TemplateSpans(template, parse).spans, image')

\* the step is a WmLabel.text that reaches WmLabelText.init
InitCalled ==
    /\ n_images' = n_images + 1
    /\ template # <<>>
    /\ CalledText # <<>> /\ Len(CalledText) <= LABEL_MAX_SIZE * 2
    /\ LineWidth(image') > 0

\* init is called with lines equal to those the previous call stored
SameLines ==
    /\ InitCalled
    /\ wtext.made /\ ~wtext.lines_none
    /\ wtext.lines = SplitLines(CalledText, LineWidth(image'))

\* the label file holds the stored lines
FileHoldsLines ==
    /\ wtext.file_path \in DOMAIN tmp_disk
    /\ tmp_disk[wtext.file_path] = wtext.lines

\* no file operation was made in the step
NoFileOperation == last_io' = NoIo /\ tmp_disk' = tmp_disk

\* the label file was written in the step, or the write was tried and failed
Rewritten ==
    /\ last_io'.wrote \in {"ok", "failed"}
    /\ last_io'.path = wtext.file_path
    /\ last_io'.wrote = "ok" => tmp_disk'[wtext.file_path] = wtext.lines

\* C30: when WmLabelText.init is called with the lines the previous call
\* stored and the label is delivered as a file, the file is not rewritten
\* if the content read back equals the lines and is rewritten if it differs
\* or cannot be read; when the label is delivered inline no file operation
\* happens
C30_RewriteOnlyWhenNeeded ==
    [][SameLines =>
          /\ ~wtext.use_file => NoFileOperation
          /\ wtext.use_file =>
                /\ last_io'.read \in {"ok", "failed"}
                /\ last_io'.read = "ok" /\ FileHoldsLines =>
                      last_io'.wrote = "none" /\ tmp_disk' = tmp_disk
                /\ last_io'.read = "failed" \/ ~FileHoldsLines => Rewritten]_vars

\* the second image has the lines of the first, the label file was changed
\* in between, and the file holds the lines again
C30_Witness ==
    /\ n_images = 2 /\ lpc = "delivered"
    /\ wtext.use_file /\ wtext.has_file /\ ~wtext.lines_none
    /\ last_io.read = "ok" /\ last_io.wrote = "ok"
    /\ tmp_disk[wtext.file_path] = wtext.lines

\* ---------------------------------------------------------------------
\* C31: the line width handed to textwrap.wrap
\* ---------------------------------------------------------------------

\* C31: for every image geometry the line width handed to word-wrapping is
\* at least 1, so that composing and wrapping a non-empty label never raises
C31_LineWidthAtLeastOne ==
    (n_images > 0 /\ label_text # <<>>) =>
        /\ LineWidth(image) >= 1
        /\ lpc # "raised"

\* ---------------------------------------------------------------------
\* C32: the original after a conversion that did not succeed
\* ---------------------------------------------------------------------

\* a __convert_file call of an in-place run with backups, for a source
\* that is on disk, that ended without a converted file
NotConvertedInplace ==
    /\ target_root = <<>> /\ backup_enabled
    /\ Len(log') = Len(log) + 1
    /\ PathIsFile(fs, log'[Len(log')].source)
    /\ log'[Len(log')].backup # <<>>
    /\ log'[Len(log')].exit # "ok"

\* C32: in place with backups, on every exit path of __convert_file on
\* which the file was not converted (the backup move failed, the exit
\* status was not 0, or the conversion executable was not found and the run
\* is aborted) the original is at its source path, unless the move back
\* failed
C32_OriginalBackAtSource ==
    [][NotConvertedInplace /\ log'[Len(log')].reverted # "failed" =>
          /\ PathIsFile(fs', log'[Len(log')].source)
          /\ fs'.files[NormPath(log'[Len(log')].source)] = log'[Len(log')].content]_vars

\* ---------------------------------------------------------------------
\* C33: files_found and files_converted
\* ---------------------------------------------------------------------

\* 1 if b, else 0
Count(b) == IF b THEN 1 ELSE 0

\* the step is an iteration of one of the loops over enumerated files, for
\* a file of a supported type
GoodFileStep ==
    \/ /\ rpc = "files" /\ fi <= Len(files) /\ GoodType(files[fi])
       /\ fi' = fi + 1 \/ rpc' # "files"
    \/ /\ rpc = "walk" /\ walk.todo # {} /\ walk' # walk
       /\ \A f \in walk.todo : walk'.todo = walk.todo \ {f} => GoodType(f)

\* the step made a __convert_file call whose conversion returned 0: the
\* target holds the next generation of the file converted
ConvertedStep ==
    /\ Len(log') = Len(log) + 1
    /\ log'[Len(log')].exit = "ok"
    /\ PathIsFile(fs', log'[Len(log')].target)
    /\ fs'.files[NormPath(log'[Len(log')].target)]
          = [orig |-> log'[Len(log')].content.orig,
             gen |-> log'[Len(log')].content.gen + 1]

\* the step made no conversion that returned 0
NotConvertedStep ==
    Len(log') = Len(log) \/ log'[Len(log')].exit # "ok"

\* C33: in every state of a run 0 <= files_converted <= files_found;
\* files_found grows by one for each enumerated file with a supported
\* extension, whatever its case, and files_converted by one for each
\* conversion that returned exit status 0 and never otherwise
C33_Counters ==
    /\ [](0 <= files_converted /\ files_converted <= files_found)
    /\ [][/\ files_found' = files_found + Count(GoodFileStep)
          /\ files_converted' = files_converted + Count(ConvertedStep)
          /\ ConvertedStep \/ NotConvertedStep]_vars

\* a run that found two files, y.JPG among them, and converted one
C33_Witness ==
    /\ rpc = "done"
    /\ files_found = 2 /\ files_converted = 1
    /\ \E i \in 1..Len(log) : log[i].source = ImgY /\ log[i].exit = "ok"
    /\ \E i \in 1..Len(log) : log[i].exit = "failed"

\* ---------------------------------------------------------------------
\* C34: what empty_dirs holds
\* ---------------------------------------------------------------------

\* the entries of empty_dirs after the step that were not in it before
NewEmptyDirs ==
    { empty_dirs'[j] : j \in 1..Len(empty_dirs') }
        \ { empty_dirs[i] : i \in 1..Len(empty_dirs) }

\* the directories the step removed
RemovedDirs == fs.dirs \ fs'.dirs

\* the directory k is an entry of empty_dirs or lies below one
AtOrBelowEmptyDir(k) ==
    \E i \in 1..Len(empty_dirs) : NormPath(empty_dirs[i]) \in UpKeys(k)

\* C34: empty_dirs only ever holds directories that did not exist before
\* the run and were created by __create_dir during it, the requested
\* directory and each missing ancestor; a directory that existed is never
\* added, so that the cleanup removes no directory the run did not create
C34_EmptyDirsAreNew ==
    /\ [](\A i \in 1..Len(empty_dirs) : NormPath(empty_dirs[i]) \notin BaseDirs)
    /\ [][/\ \A d \in NewEmptyDirs : ~PathExists(fs, d) /\ PathIsDir(fs', d)
          /\ RemovedDirs # {} => rpc = "clean"
          /\ \A k \in RemovedDirs : AtOrBelowEmptyDir(k)]_vars

\* the destination n/m was made with its missing ancestor n, next to
\* directories that were there before
C34_Witness ==
    /\ Len(empty_dirs) = 2
    /\ empty_dirs[1] = <<"n", "/", "m">> /\ empty_dirs[2] = <<"n">>
    /\ PathIsDir(fs, empty_dirs[1]) /\ PathIsDir(fs, empty_dirs[2])
    /\ BaseDirs \subseteq fs.dirs

====
